---- MODULE Spec2Model ----
(***************************************************************************)
(* Buffered msgpack trace encoders (MsgpackEncoder, MsgpackEncoderV03,     *)
(* MsgpackEncoderV05) and the msgpack string table of                      *)
(* src/unnamed/part_000, as a state machine.                               *)
(*                                                                         *)
(* Buffers are sequences of byte values; the byte at C offset k is         *)
(* element k + 1.  A byte that was never written holds Uninit.  The        *)
(* packer reallocates on demand (see the comment in put), so a write past  *)
(* the allocated capacity always succeeds and the capacity itself is not   *)
(* observable; the buffer is kept up to its high-water mark.               *)
(*                                                                         *)
(* With one caller at a time (mode "seq") a byte at or beyond the cursor,  *)
(* or in the reserved prefix after a flush, is always written again before *)
(* it is read; there the model drops such bytes when the cursor is moved   *)
(* back for good (Dead), and every read of a dropped byte would show as    *)
(* Uninit in the bytes returned.  With concurrent callers all bytes stay.  *)
(*                                                                         *)
(* Each operation is split into steps at the places where the code reads   *)
(* or writes shared state outside a lock, acquires a lock or releases it.  *)
(* A thread is a program counter plus the locals of the running call.      *)
(***************************************************************************)
EXTENDS Integers, Sequences, FiniteSets, TLC

VARIABLES
    dialect,        \* "v03" | "v05": the concrete encoder class
    mode,           \* "seq": one caller; "conc": producers and a consumer
    max_size,       \* MsgpackEncoder.max_size
    max_item_size,  \* MsgpackEncoder.max_item_size
    buf,            \* MsgpackEncoder.pk.buf
    length,         \* MsgpackEncoder.pk.length
    count,          \* MsgpackEncoder._count
    lock,           \* MsgpackEncoder._lock: "free" or the holder
    st_index,       \* MsgpackStringTable._index: the strings, id = position - 1
    st_buf,         \* MsgpackStringTable.pk.buf
    st_length,      \* MsgpackStringTable.pk.length
    st_sp,          \* MsgpackStringTable._sp
    st_lock,        \* MsgpackStringTable._lock
    th,             \* per thread: program counter and locals
    accepted,       \* history: traces whose put succeeded since the last reset
    last,           \* history: the call that returned last, until the next call
    hist,           \* history: whether a put failed since the last reset and,
                    \* in mode "conc", all accepted traces and all outputs; in
                    \* mode "seq", the strings failed puts were first to intern
    inputs,         \* the traces the callers of this run put (names of TraceOf)
    tbl,            \* a string table used on its own (StringTable and subclasses)
    hp,             \* the patch of an array header for a given number of items
    pt,             \* _pack_trace of one trace on a fresh encoder
    cv,             \* a _PprofConverter used on its own, and its last call
    ex              \* a run of PprofExporter.export

vars == <<dialect, mode, max_size, max_item_size, buf, length, count, lock,
          st_index, st_buf, st_length, st_sp, st_lock, th, accepted, last, hist,
          inputs, tbl, hp, pt, cv, ex>>

-----------------------------------------------------------------------------
(* Values *)

\* Python None where a text or a bytes object is expected.
None == <<-1>>

\* A byte of a buffer that no write has reached.
Uninit == -1

Max(a, b) == IF a > b THEN a ELSE b

\* Numbers as the encoders see them: an int, None, or an object of another type.
IntV(n) == [kind |-> "int", v |-> n]
\* An int of magnitude 2^32 or more: its sign (1 or -1) and the bytes of its
\* magnitude, big endian, the first of them not 0.
LongV(sign, mag) == [kind |-> "long", v |-> [sign |-> sign, mag |-> mag]]
NoneV == [kind |-> "none", v |-> 0]
OtherV == [kind |-> "other", v |-> 0]

\* buf[pos .. pos + n) as the C code reads it: whatever the memory holds.
Slice(b, pos, n) == [k \in 1..n |-> IF pos + k <= Len(b) THEN b[pos + k] ELSE Uninit]

\* memcpy of bytes at offset pos, growing the buffer when needed.
WriteAt(b, pos, bytes) ==
    [k \in 1..Max(Len(b), pos + Len(bytes)) |->
        IF k > pos /\ k <= pos + Len(bytes) THEN bytes[k - pos]
        ELSE IF k <= Len(b) THEN b[k] ELSE Uninit]

-----------------------------------------------------------------------------
(* msgpack primitives (pack.h) for the value ranges of this model *)

\* The low n bytes of d >= 0, big endian.
BE(d, n) == [k \in 1..n |-> (d \div (256 ^ (n - k))) % 256]

\* The low n bytes of the two's complement of d < 0, big endian.
BENeg(d, n) == [k \in 1..n |-> 255 - (((-d - 1) \div (256 ^ (n - k))) % 256)]

msgpack_pack_nil == <<192>>

msgpack_pack_unsigned_long_long(d) ==
    IF d < 128 THEN <<d>>
    ELSE IF d < 256 THEN <<204>> \o BE(d, 1)
    ELSE IF d < 65536 THEN <<205>> \o BE(d, 2)
    ELSE <<206>> \o BE(d, 4)

msgpack_pack_long_long(d) ==
    IF d >= 0 THEN msgpack_pack_unsigned_long_long(d)
    ELSE IF d >= -32 THEN BENeg(d, 1)
    ELSE IF d >= -128 THEN <<208>> \o BENeg(d, 1)
    ELSE IF d >= -32768 THEN <<209>> \o BENeg(d, 2)
    ELSE <<210>> \o BENeg(d, 4)

\* The last n bytes of mag, with zeros in front.
Pad(mag, n) == [k \in 1..n |-> IF k > n - Len(mag) THEN mag[k - (n - Len(mag))] ELSE 0]

\* The bytes of the number before the one whose bytes are b (b not all 0).
RECURSIVE DecBytes(_)
DecBytes(b) ==
    IF b[Len(b)] > 0 THEN [b EXCEPT ![Len(b)] = @ - 1]
    ELSE Append(DecBytes(SubSeq(b, 1, Len(b) - 1)), 255)

\* msgpack_pack_unsigned_long_long for d >= 2^32, given by the bytes of d: the
\* uint 64 form.
msgpack_pack_uint64_form(mag) == <<207>> \o Pad(mag, 8)

\* msgpack_pack_long_long for d < -(2^31), given by the bytes of -d: the int
\* 64 form, d in two's complement.
msgpack_pack_int64_form(mag) ==
    <<211>> \o [k \in 1..8 |-> 255 - DecBytes(Pad(mag, 8))[k]]

msgpack_pack_array(n) ==
    IF n < 16 THEN <<144 + n>>
    ELSE IF n < 65536 THEN <<220>> \o BE(n, 2)
    ELSE <<221>> \o BE(n, 4)

msgpack_pack_map(n) ==
    IF n < 16 THEN <<128 + n>>
    ELSE IF n < 65536 THEN <<222>> \o BE(n, 2)
    ELSE <<223>> \o BE(n, 4)

msgpack_pack_raw(l) ==
    IF l < 32 THEN <<160 + l>>
    ELSE IF l < 65536 THEN <<218>> \o BE(l, 2)
    ELSE <<219>> \o BE(l, 4)

-----------------------------------------------------------------------------
(* Pack helpers of part_000.  A pack result is [ok, bytes]: ok is FALSE    *)
(* when the call raises, bytes is what was written before.                 *)

Packed(bytes) == [ok |-> TRUE, bytes |-> bytes, exc |-> "none"]
RaisedWith(exc) == [ok |-> FALSE, bytes |-> <<>>, exc |-> exc]
Raised == RaisedWith("TypeError")

\* <unsigned long long> n for n > 0 of magnitude mag converts.
FitsUnsignedLongLong(mag) == Len(mag) <= 8

\* <long long> n for n < 0 of magnitude mag converts: mag <= 2^63.
FitsLongLong(mag) ==
    \/ Len(mag) < 8
    \/ Len(mag) = 8 /\ mag[1] < 128
    \/ mag = <<128, 0, 0, 0, 0, 0, 0, 0>>

pack_bytes(bs) == Packed(msgpack_pack_raw(Len(bs)) \o bs)

\* pack_number converting without a range test: the low 64 bits are packed.
pack_number_Unchecked(n) ==
    IF n.kind = "none" THEN Packed(msgpack_pack_nil)
    ELSE IF n.kind = "int" THEN
        IF n.v > 0 THEN Packed(msgpack_pack_unsigned_long_long(n.v))
        ELSE Packed(msgpack_pack_long_long(n.v))
    ELSE IF n.kind = "long" THEN
        IF n.v.sign > 0 THEN Packed(msgpack_pack_uint64_form(n.v.mag))
        ELSE Packed(msgpack_pack_int64_form(n.v.mag))
    ELSE Raised

pack_number(n) ==
    IF n.kind = "none" THEN Packed(msgpack_pack_nil)
    ELSE IF n.kind = "int" THEN
        IF n.v > 0 THEN Packed(msgpack_pack_unsigned_long_long(n.v))
        ELSE Packed(msgpack_pack_long_long(n.v))
    ELSE IF n.kind = "long" THEN
        IF n.v.sign > 0
        THEN IF FitsUnsignedLongLong(n.v.mag) THEN Packed(msgpack_pack_uint64_form(n.v.mag))
             ELSE RaisedWith("OverflowError")
        ELSE IF FitsLongLong(n.v.mag) THEN Packed(msgpack_pack_int64_form(n.v.mag))
             ELSE RaisedWith("OverflowError")
    ELSE Raised

pack_text(text) ==
    IF text = None THEN Packed(msgpack_pack_nil)
    ELSE Packed(msgpack_pack_raw(Len(text)) \o text)

array_prefix_size(l) ==
    IF l < 16 THEN 1
    ELSE IF l < 2 * 65536 THEN 3
    ELSE 5

\* The span's room for the array length prefix (pk.length = 5).
ReservedPrefix == 5

\* The string table's room for its two array prefixes (pk.length = 6).
StReservedPrefix == 6

-----------------------------------------------------------------------------
(* Literal keys, as the bytes the code passes to pack_bytes / pack_text *)

K_trace_id == <<116, 114, 97, 99, 101, 95, 105, 100>>
K_parent_id == <<112, 97, 114, 101, 110, 116, 95, 105, 100>>
K_span_id == <<115, 112, 97, 110, 95, 105, 100>>
K_service == <<115, 101, 114, 118, 105, 99, 101>>
K_resource == <<114, 101, 115, 111, 117, 114, 99, 101>>
K_name == <<110, 97, 109, 101>>
K_error == <<101, 114, 114, 111, 114>>
K_start == <<115, 116, 97, 114, 116>>
K_duration == <<100, 117, 114, 97, 116, 105, 111, 110>>
K_type == <<116, 121, 112, 101>>
K_meta == <<109, 101, 116, 97>>
K_metrics == <<109, 101, 116, 114, 105, 99, 115>>
\* "_dd.origin"
ORIGIN_KEY == <<95, 100, 100, 46, 111, 114, 105, 103, 105, 110>>

-----------------------------------------------------------------------------
(* Packing context: the payload packer and the string table a pack_span    *)
(* call works on.  Pack calls are listed in the order the code makes them  *)
(* and run in that order; the first call that raises ends the run.         *)

\* One call that writes to the payload packer.
E(r) == [op |-> "emit", r |-> r, text |-> None]
\* One _pack_string call (V05).
S(text) == [op |-> "str", r |-> Raised, text |-> text]

\* What a run of pack calls has appended so far: out to the payload packer,
\* idx and sout to the string table's index and packer.
Ctx(idx) == [out |-> <<>>, idx |-> idx, sout |-> <<>>, ok |-> TRUE]

\* A write of the payload packer at its cursor.
Write(c, bytes) == [c EXCEPT !.out = @ \o bytes]

InIndex(idx, s) == \E k \in 1..Len(idx) : idx[k] = s
IdOf(idx, s) == (CHOOSE k \in 1..Len(idx) : idx[k] = s) - 1

\* MsgpackStringTable.insert: pack_text at the table's cursor.
StInsert(c, s) == [c EXCEPT !.sout = @ \o pack_text(s).bytes]

\* StringTable.index followed by the write of the id (_pack_string).
PackString(c, s) ==
    IF s = None THEN Write(c, msgpack_pack_unsigned_long_long(0))
    ELSE IF InIndex(c.idx, s) THEN Write(c, msgpack_pack_unsigned_long_long(IdOf(c.idx, s)))
    ELSE Write(StInsert([c EXCEPT !.idx = Append(c.idx, s)], s),
               msgpack_pack_unsigned_long_long(Len(c.idx)))

RunOp(c, o) ==
    IF ~c.ok THEN c
    ELSE IF o.op = "str" THEN PackString(c, o.text)
    ELSE IF o.r.ok THEN Write(c, o.r.bytes)
    ELSE [c EXCEPT !.ok = FALSE]

\* The calls ops[lo..hi] in order, up to the first that raises (evaluated
\* by halves to keep the nesting of the evaluation low).
RECURSIVE RunFrom(_, _, _, _)
RunFrom(c, ops, lo, hi) ==
    IF ~c.ok \/ lo > hi THEN c
    ELSE IF lo = hi THEN RunOp(c, ops[lo])
    ELSE RunFrom(RunFrom(c, ops, lo, (lo + hi) \div 2), ops, (lo + hi) \div 2 + 1, hi)

Run(c, ops) == RunFrom(c, ops, 1, Len(ops))

RECURSIVE FlattenFrom(_, _, _)
FlattenFrom(ss, lo, hi) ==
    IF lo > hi THEN <<>>
    ELSE IF lo = hi THEN ss[lo]
    ELSE FlattenFrom(ss, lo, (lo + hi) \div 2) \o FlattenFrom(ss, (lo + hi) \div 2 + 1, hi)

\* The concatenation of the sequences of ss.
Flatten(ss) == FlattenFrom(ss, 1, Len(ss))

-----------------------------------------------------------------------------
(* MsgpackEncoderV03 *)

V03_pack_meta(meta, dd_origin) ==
    LET L == Len(meta) + (IF dd_origin # None THEN 1 ELSE 0)
    IN  <<E(Packed(msgpack_pack_map(L)))>>
        \o Flatten([k \in 1..Len(meta) |-> <<E(pack_text(meta[k][1])), E(pack_text(meta[k][2]))>>])
        \o (IF dd_origin # None THEN <<E(pack_text(ORIGIN_KEY)), E(pack_text(dd_origin))>> ELSE <<>>)

V03_pack_metrics(metrics) ==
    <<E(Packed(msgpack_pack_map(Len(metrics))))>>
    \o Flatten([k \in 1..Len(metrics) |-> <<E(pack_text(metrics[k][1])), E(pack_number(metrics[k][2]))>>])

\* V03_pack_span declaring a map that leaves the metrics out of its size.
V03_pack_span_MetricsUncounted(span, dd_origin) ==
    LET has_span_type == IF span.span_type # None THEN 1 ELSE 0
        has_meta == IF Len(span.meta) > 0 \/ dd_origin # None THEN 1 ELSE 0
        has_metrics == IF Len(span.metrics) > 0 THEN 1 ELSE 0
    IN  <<E(Packed(msgpack_pack_map(9 + has_span_type + has_meta))),
          E(pack_bytes(K_trace_id)), E(pack_number(span.trace_id)),
          E(pack_bytes(K_parent_id)), E(pack_number(span.parent_id)),
          E(pack_bytes(K_span_id)), E(pack_number(span.span_id)),
          E(pack_bytes(K_service)), E(pack_text(span.service)),
          E(pack_bytes(K_resource)), E(pack_text(span.resource)),
          E(pack_bytes(K_name)), E(pack_text(span.name)),
          E(pack_bytes(K_error)), E(Packed(msgpack_pack_long_long(IF span.error THEN 1 ELSE 0))),
          E(pack_bytes(K_start)), E(pack_number(span.start_ns)),
          E(pack_bytes(K_duration)), E(pack_number(span.duration_ns))>>
        \o (IF has_span_type = 1
            THEN <<E(pack_bytes(K_type)), E(pack_text(span.span_type))>> ELSE <<>>)
        \o (IF has_meta = 1
            THEN <<E(pack_bytes(K_meta))>> \o V03_pack_meta(span.meta, dd_origin) ELSE <<>>)
        \o (IF has_metrics = 1
            THEN <<E(pack_bytes(K_metrics))>> \o V03_pack_metrics(span.metrics) ELSE <<>>)

V03_pack_span(span, dd_origin) ==
    LET has_span_type == IF span.span_type # None THEN 1 ELSE 0
        has_meta == IF Len(span.meta) > 0 \/ dd_origin # None THEN 1 ELSE 0
        has_metrics == IF Len(span.metrics) > 0 THEN 1 ELSE 0
        L == 9 + has_span_type + has_meta + has_metrics
    IN  <<E(Packed(msgpack_pack_map(L))),
          E(pack_bytes(K_trace_id)), E(pack_number(span.trace_id)),
          E(pack_bytes(K_parent_id)), E(pack_number(span.parent_id)),
          E(pack_bytes(K_span_id)), E(pack_number(span.span_id)),
          E(pack_bytes(K_service)), E(pack_text(span.service)),
          E(pack_bytes(K_resource)), E(pack_text(span.resource)),
          E(pack_bytes(K_name)), E(pack_text(span.name)),
          E(pack_bytes(K_error)), E(Packed(msgpack_pack_long_long(IF span.error THEN 1 ELSE 0))),
          E(pack_bytes(K_start)), E(pack_number(span.start_ns)),
          E(pack_bytes(K_duration)), E(pack_number(span.duration_ns))>>
        \o (IF has_span_type = 1
            THEN <<E(pack_bytes(K_type)), E(pack_text(span.span_type))>> ELSE <<>>)
        \o (IF has_meta = 1
            THEN <<E(pack_bytes(K_meta))>> \o V03_pack_meta(span.meta, dd_origin) ELSE <<>>)
        \o (IF has_metrics = 1
            THEN <<E(pack_bytes(K_metrics))>> \o V03_pack_metrics(span.metrics) ELSE <<>>)

-----------------------------------------------------------------------------
(* MsgpackEncoderV05 *)

\* "x or 0" handed to a C unsigned 64-bit parameter.
U64OrZero(n) ==
    IF n.kind = "none" THEN Packed(msgpack_pack_unsigned_long_long(0))
    ELSE IF n.kind = "int" /\ n.v >= 0 THEN Packed(msgpack_pack_unsigned_long_long(n.v))
    ELSE IF n.kind = "long" /\ n.v.sign > 0 /\ FitsUnsignedLongLong(n.v.mag)
    THEN Packed(msgpack_pack_uint64_form(n.v.mag))
    ELSE IF n.kind \in {"int", "long"} THEN RaisedWith("OverflowError")
    ELSE Raised

\* "x or 0" handed to a C signed parameter.
I64OrZero(n) ==
    IF n.kind = "none" THEN Packed(msgpack_pack_long_long(0))
    ELSE IF n.kind = "int" THEN Packed(msgpack_pack_long_long(n.v))
    ELSE IF n.kind = "long" THEN
        IF n.v.sign > 0 /\ Len(n.v.mag) <= 8 /\ Pad(n.v.mag, 8)[1] < 128
        THEN Packed(msgpack_pack_uint64_form(n.v.mag))
        ELSE IF n.v.sign < 0 /\ FitsLongLong(n.v.mag)
        THEN Packed(msgpack_pack_int64_form(n.v.mag))
        ELSE RaisedWith("OverflowError")
    ELSE Raised

\* "for k, v in d" over a dict d: the loop takes the keys of d and unpacks
\* each key, a string, into k and v; a key that is not two characters long
\* raises ValueError.  The calls body(k, v) makes, or the raise.
ForKVIn(key, body(_, _)) ==
    IF Len(key) = 2 THEN body(<<key[1]>>, <<key[2]>>) ELSE <<E(RaisedWith("ValueError"))>>

\* for k, v in span.meta: _pack_string(k); _pack_string(v).
V05_meta_body(k, v) == <<S(k), S(v)>>

\* for k, v in span.metrics: _pack_string(k); pack_number(v), where v is a
\* string and pack_number raises TypeError.
V05_metrics_body(k, v) == <<S(k), E(Raised)>>

V05_pack_span(span, dd_origin) ==
    <<E(Packed(msgpack_pack_array(12))),
      S(span.service), S(span.name), S(span.resource),
      E(U64OrZero(span.trace_id)), E(U64OrZero(span.span_id)), E(U64OrZero(span.parent_id)),
      E(I64OrZero(span.start_ns)), E(I64OrZero(span.duration_ns)),
      E(Packed(msgpack_pack_long_long(IF span.error THEN 1 ELSE 0))),
      E(Packed(msgpack_pack_map(Len(span.meta) + (IF dd_origin # None THEN 1 ELSE 0))))>>
    \o Flatten([k \in 1..Len(span.meta) |-> ForKVIn(span.meta[k][1], V05_meta_body)])
    \o (IF dd_origin # None THEN <<S(ORIGIN_KEY), S(dd_origin)>> ELSE <<>>)
    \o <<E(Packed(msgpack_pack_map(Len(span.metrics))))>>
    \o Flatten([k \in 1..Len(span.metrics) |-> ForKVIn(span.metrics[k][1], V05_metrics_body)])
    \o <<S(span.span_type)>>

pack_span(d, span, dd_origin) ==
    IF d = "v03" THEN V03_pack_span(span, dd_origin) ELSE V05_pack_span(span, dd_origin)

-----------------------------------------------------------------------------
(* Inputs: the spans and traces the callers put, the encoder configurations *)

T_s == <<115>>
T_n == <<110>>
T_r == <<114>>
T_x == <<120>>
T_m == <<109>>
T_q == <<113>>
T_k == <<107>>
T_v == <<118>>
T_w == <<119>>

NoContext == [present |-> FALSE, dd_origin |-> None]
Context(origin) == [present |-> TRUE, dd_origin |-> origin]

\* The span of the end-to-end scenarios.
Span1 ==
    [trace_id |-> IntV(1), span_id |-> IntV(2), parent_id |-> IntV(0),
     service |-> T_s, resource |-> T_r, name |-> T_n, error |-> FALSE,
     start_ns |-> IntV(1000), duration_ns |-> IntV(500), span_type |-> None,
     meta |-> <<>>, metrics |-> <<>>, context |-> NoContext]

\* A child span with a type, one tag, one metric and a name not seen before.
Span2 ==
    [Span1 EXCEPT !.span_id = IntV(3), !.parent_id = IntV(2), !.name = T_q,
                  !.span_type = T_w, !.meta = <<<<T_k, T_v>>>>,
                  !.metrics = <<<<T_m, IntV(-7)>>>>]

\* A span whose metric value has a type pack_number does not handle; its
\* service and its metric key are strings no other span uses.
SpanBad ==
    [Span1 EXCEPT !.service = T_x, !.metrics = <<<<T_m, OtherV>>>>]

\* The bytes of 2^64 - 1, of 2^64, of 2^63 and of 2^63 + 1.
Mag_U64Max == <<255, 255, 255, 255, 255, 255, 255, 255>>
Mag_U64Over == <<1, 0, 0, 0, 0, 0, 0, 0, 0>>
Mag_I64Min == <<128, 0, 0, 0, 0, 0, 0, 0>>
Mag_I64Under == <<128, 0, 0, 0, 0, 0, 0, 1>>

\* Spans with a number at or beyond a limit of the 64-bit types: the trace
\* id for the positive ones, the duration for the negative ones.
SpanOfNumber(name) ==
    CASE name = "max" -> [Span1 EXCEPT !.trace_id = LongV(1, Mag_U64Max)]
      [] name = "over" -> [Span1 EXCEPT !.trace_id = LongV(1, Mag_U64Over)]
      [] name = "min" -> [Span1 EXCEPT !.duration_ns = LongV(-1, Mag_I64Min)]
      [] name = "under" -> [Span1 EXCEPT !.duration_ns = LongV(-1, Mag_I64Under)]

NumberTraces == {"max", "over", "min", "under"}

\* The traces callers put, by name.
TraceOf(name) ==
    CASE name = "one" -> <<Span1>>
      [] name = "two" -> <<Span1, Span2>>
      [] name = "bad" -> <<SpanBad>>
      [] name \in NumberTraces -> <<SpanOfNumber(name)>>
      [] OTHER -> <<>>

\* TraceOrigin reading the context of the last span.
TraceOriginOfLast(tr) ==
    IF Len(tr) > 0 /\ tr[Len(tr)].context.present THEN tr[Len(tr)].context.dd_origin ELSE None

\* _pack_trace: the origin of a trace is that of its first span's context.
TraceOrigin(tr) ==
    IF Len(tr) > 0 /\ tr[1].context.present THEN tr[1].context.dd_origin ELSE None

\* The spans _pack_trace is run on: with and without a type, tags, metrics,
\* an error, a service, and a context with or without an origin.  The key
\* of the second tag is two characters long.
Metas == {<<>>, <<<<T_k, T_v>>>>, <<<<T_k \o T_v, T_w>>>>}
Metricses == {<<>>, <<<<T_m, IntV(-7)>>>>}
Contexts == {NoContext, Context(None), Context(T_x)}

PackSpans1 ==
    {[Span1 EXCEPT !.span_type = ty, !.meta = me, !.metrics = mc, !.error = er,
                   !.service = sv, !.context = cx] :
        ty \in {None, T_w}, me \in Metas, mc \in Metricses, er \in BOOLEAN,
        sv \in {T_s, None}, cx \in Contexts}

\* The spans of the traces of two spans.
PackSpans2 ==
    {[Span1 EXCEPT !.meta = me, !.context = cx] : me \in {<<>>, <<<<T_k, T_v>>>>}, cx \in Contexts}

PackTraces == {<<s>> : s \in PackSpans1} \cup {<<s1, s2>> : s1 \in PackSpans2, s2 \in PackSpans2}

\* _pack_trace(trace) about to run on a fresh encoder of dialect d: out is
\* what it writes to pk, idx and sout are the string table's index and
\* bytes, spans the bytes each pack_span call wrote.
Packing(d, trace) ==
    [dialect |-> d, trace |-> trace, pc |-> "header", i |-> 1, dd_origin |-> None,
     out |-> <<>>, idx |-> << <<>> >>, sout |-> <<>>, spans |-> <<>>]

\* pt when no _pack_trace is run on its own.
NoPack == [Packing("none", <<>>) EXCEPT !.pc = "none"]

\* Largest max_size the V03 encoder is constructed with.
MaxSizeV03 == 92
\* Largest max_size the V05 encoder is constructed with.
MaxSizeV05 == 31

\* max_item_size of the V03 runs at the size limits: the bytes of <<Span1>>.
MaxItemV03 == 88
\* max_item_size of the V05 runs at the size limits: what <<Span1>> adds to
\* size() on a fresh encoder.
MaxItemV05 == 24

\* Constructor arguments at the size limits: the item fits max_item_size
\* and max_size exactly, fits max_item_size only, or fits neither.
ConfigsAtLimit ==
    {[dialect |-> "v03", max_size |-> MaxItemV03 + d, max_item_size |-> MaxItemV03,
      inputs |-> {"empty", "one"}] : d \in {-1, 0, 1}}
    \cup
    {[dialect |-> "v05", max_size |-> MaxItemV05 + d, max_item_size |-> MaxItemV05,
      inputs |-> {"empty", "one"}] : d \in {-1, 3, 4}}

\* Constructor arguments (max_size, max_item_size) and the traces put, per run.
Configs ==
    ConfigsAtLimit \cup
    {[dialect |-> "v03", max_size |-> 18, max_item_size |-> 18,
      inputs |-> {"empty", "bad"}],
     [dialect |-> "v03", max_size |-> MaxSizeV03, max_item_size |-> MaxSizeV03 - 2,
      inputs |-> {"empty", "one", "two", "bad"}],
     [dialect |-> "v05", max_size |-> 21, max_item_size |-> 30,
      inputs |-> {"empty", "bad"}],
     [dialect |-> "v05", max_size |-> MaxSizeV05, max_item_size |-> MaxSizeV05 - 4,
      inputs |-> {"empty", "one", "two", "bad"}]}

\* The runs with two producers and a consumer.
ConfigsConc ==
    {[dialect |-> "v03", max_size |-> MaxSizeV03, max_item_size |-> MaxSizeV03 - 2,
      inputs |-> {"empty", "bad"}],
     [dialect |-> "v05", max_size |-> MaxSizeV05, max_item_size |-> MaxSizeV05 - 4,
      inputs |-> {"one", "bad"}]}

-----------------------------------------------------------------------------
(* Threads *)

Threads == {"p1", "p2", "c"}

\* Calls a producer (put) or the consumer (encode) makes in mode "conc".
MaxCalls == 1

NoEntry ==
    [length |-> 0, count |-> 0, size |-> 0, body |-> <<>>,
     st_length |-> 0, st_index |-> <<>>, st_body |-> <<>>, accepted |-> <<>>,
     failed |-> FALSE, rolled |-> {}, prev |-> "none", prev_out |-> None,
     full |-> "none", retry |-> "none"]

Idle(calls) ==
    [pc |-> "idle", op |-> "none", trace |-> "none", len_before |-> 0, size_before |-> 0,
     i |-> 0, dd_origin |-> None, offset |-> 0, old_pos |-> 0, size |-> 0, l |-> 0,
     cur |-> 0,
     exc |-> "none", arg |-> 0, out |-> None, entry |-> NoEntry, calls |-> calls]

\* A Python dict as a function from its keys; the dict with no key.
EmptyDict == [s \in {} |-> 0]

\* The call a string table answered last: known tells whether index had
\* returned an id for arg since the table was built or reset, first is that id,
\* new whether arg was a text the table did not hold, len the table's length.
NoTblLast ==
    [op |-> "none", arg |-> None, exc |-> "none", ret |-> 0, out |-> None,
     known |-> FALSE, first |-> 0, new |-> FALSE, len |-> 0]

\* tbl when no string table is used on its own.
NoTable ==
    [variant |-> "none", has_index |-> FALSE, index |-> EmptyDict, list |-> <<>>,
     body |-> <<>>, first |-> EmptyDict, last |-> NoTblLast]

(* The array headers patched into the reserved prefix, for any number of   *)
(* items: MsgpackEncoder._update_array_len and get_bytes on an encoder     *)
(* that holds n traces, MsgpackStringTable.get_bytes on a table of n       *)
(* strings.  hp.head is the head of pk.buf: the reserved prefix and the   *)
(* first bytes of the body; hp.length is pk.length.                       *)

\* How far around the limits of the header forms the numbers of items go.
HeaderWindow == 2

\* Bytes of the body that hp.head holds.
HeadBody == 3

\* The numbers of items: those around 16, 2^16 and 2 << 16.
HeaderCounts ==
    UNION {(k - HeaderWindow)..(k + HeaderWindow) : k \in {16, 65536, 2 * 65536}}

\* The body of an encoder after n calls of put([]): n empty arrays.
EmptyTraces(n) == [k \in 1..n |-> msgpack_pack_array(0)[1]]

\* The first bytes of the body of a string table: "" and "s" (the further
\* strings are taken to be three bytes long).
TableHead == pack_text(<<>>).bytes \o pack_text(T_s).bytes

\* An encoder or a string table that holds n items, before get_bytes.
Holding(kind, n) ==
    [kind |-> kind, n |-> n, pc |-> "read",
     reserved |-> IF kind = "encoder" THEN ReservedPrefix ELSE StReservedPrefix,
     head |-> IF kind = "encoder"
              THEN [k \in 1..ReservedPrefix |-> Uninit] \o EmptyTraces(HeadBody)
              ELSE [k \in 1..StReservedPrefix |-> Uninit] \o TableHead,
     length |-> IF kind = "encoder" THEN ReservedPrefix + n
                ELSE StReservedPrefix + Len(TableHead) + 4 * (n - 2),
     offset |-> 0, old_pos |-> 0, end |-> 0, out |-> None, out_len |-> 0]

\* hp when no header is patched on its own.
NoHeader == [Holding("encoder", 0) EXCEPT !.kind = "none"]

\* cv and ex when no pprof converter or exporter runs.
NoConverter == [op |-> "off"]
NoExport == [pc |-> "off"]

NoLast ==
    [op |-> "none", trace |-> "none", exc |-> "none", arg |-> 0, out |-> None,
     entry |-> NoEntry]

\* MsgpackEncoder.size (the base class property).
BaseSize == length + array_prefix_size(count) - 5

\* MsgpackStringTable.size.
StSize == st_length - 5 + array_prefix_size(Len(st_index))

\* self.size as put reads it: the property of the concrete class.
Size == IF dialect = "v05" THEN StSize + BaseSize ELSE BaseSize

\* The state a call finds, kept for the properties (mode "seq"); prev is the
\* call before it: "flush" for an encode of buffered traces.  full is the
\* trace of the call before it when that was a put that raised BufferFull,
\* retry that trace when an encode has been called since, prev_out what the
\* call before it returned when that was get_bytes.
Entry ==
    IF mode # "seq" THEN NoEntry ELSE
    [length |-> length, count |-> count, size |-> Size,
     body |-> Slice(buf, ReservedPrefix, length - ReservedPrefix),
     st_length |-> st_length, st_index |-> st_index,
     st_body |-> Slice(st_buf, StReservedPrefix, st_length - StReservedPrefix),
     accepted |-> accepted, failed |-> hist.failed, rolled |-> hist.rolled,
     prev |-> IF last.op = "encode" /\ last.entry.count > 0 THEN "flush" ELSE last.op,
     prev_out |-> IF last.op = "get_bytes" THEN last.out ELSE None,
     full |-> IF last.op = "put" /\ last.exc = "BufferFull" THEN last.trace ELSE "none",
     retry |-> IF last.op = "encode" THEN last.entry.full ELSE "none"]

EncoderInit(m, cfgs) ==
    /\ mode = m
    /\ \E cfg \in cfgs :
        /\ dialect = cfg.dialect
        /\ inputs = cfg.inputs
        /\ max_size = cfg.max_size
        /\ max_item_size = IF cfg.max_item_size < cfg.max_size
                           THEN cfg.max_item_size ELSE cfg.max_size
    /\ buf = [k \in 1..ReservedPrefix |-> Uninit]
    /\ length = 5
    /\ count = 0
    /\ lock = "free"
    /\ st_index = << <<>> >>
    /\ st_buf = [k \in 1..StReservedPrefix |-> Uninit] \o pack_text(<<>>).bytes
    /\ st_length = 7
    /\ st_sp = 0
    /\ st_lock = "free"
    /\ th = [t \in Threads |-> Idle(0)]
    /\ accepted = <<>>
    /\ last = NoLast
    /\ hist = [acc |-> <<>>, outs |-> <<>>, failed |-> FALSE, rolled |-> {}]

\* A run of an encoder: no string table is used on its own.
InitWith(m, cfgs) ==
    EncoderInit(m, cfgs) /\ tbl = NoTable /\ hp = NoHeader /\ pt = NoPack
    /\ cv = NoConverter /\ ex = NoExport

Init == InitWith("seq", Configs)

CanPut(t) ==
    IF mode = "seq" THEN t = "p1" ELSE t \in {"p1", "p2"} /\ th[t].calls < MaxCalls

CanEncode(t) ==
    IF mode = "seq" THEN t = "p1" ELSE t = "c" /\ th[t].calls < MaxCalls

Goto(t, pc) == th' = [th EXCEPT ![t].pc = pc]

\* The strings of the index idx that the index before did not hold.
NewStrings(before, idx) ==
    {idx[k] : k \in 1..Len(idx)} \ {before[k] : k \in 1..Len(before)}

\* The call of thread t returns out or raises exc(arg).
Return(t, exc, arg, out) ==
    /\ th' = [th EXCEPT ![t] = Idle(IF mode = "seq" THEN 0 ELSE th[t].calls + 1)]
    /\ last' = IF mode = "seq"
               THEN [op |-> th[t].op, trace |-> th[t].trace, exc |-> exc, arg |-> arg,
                     out |-> out, entry |-> th[t].entry]
               ELSE NoLast
    /\ hist' = [acc |-> IF mode = "conc" /\ th[t].op = "put" /\ exc = "none"
                        THEN Append(hist.acc, th[t].trace) ELSE hist.acc,
                outs |-> IF mode = "conc" /\ th[t].op = "encode" /\ exc = "none" /\ out # None
                         THEN Append(hist.outs, out) ELSE hist.outs,
                failed |-> IF th[t].op = "put" THEN (hist.failed \/ exc # "none")
                           ELSE IF th[t].pc = "flush_finally" THEN FALSE
                           ELSE hist.failed,
                rolled |-> IF mode = "seq" /\ th[t].pc = "rollback"
                           THEN hist.rolled \cup NewStrings(th[t].entry.st_index, st_index)
                           ELSE IF th[t].pc = "flush_finally" THEN {}
                           ELSE hist.rolled]

\* The buffer b once its cursor is moved back to l for good, the first keep
\* bytes being still meaningful.
Dead(b, keep, l) ==
    IF mode = "seq"
    THEN [k \in 1..l |-> IF k <= keep THEN b[k] ELSE Uninit]
    ELSE b

enc == <<dialect, mode, max_size, max_item_size, inputs, tbl, hp, pt, cv, ex>>
pkv == <<buf, length>>
stv == <<st_index, st_buf, st_length>>

-----------------------------------------------------------------------------
(* put *)

\* A caller starts put(trace).
CallPut(t) ==
    /\ th[t].pc = "idle"
    /\ CanPut(t)
    /\ \E tr \in inputs :
        th' = [th EXCEPT ![t].pc = IF dialect = "v05" THEN "savepoint" ELSE "put_enter",
                         ![t].op = "put", ![t].trace = tr, ![t].entry = Entry]
    /\ last' = NoLast
    /\ UNCHANGED <<enc, pkv, count, lock, stv, st_sp, st_lock, accepted, hist>>

\* MsgpackEncoderV05.put: self._st.savepoint().
Savepoint(t) ==
    /\ th[t].pc = "savepoint"
    /\ st_sp' = st_length
    /\ Goto(t, "put_enter")
    /\ UNCHANGED <<enc, pkv, count, lock, stv, st_lock, accepted, last, hist>>

\* MsgpackEncoder.put: len_before = self.pk.length; size_before = self.size.
PutEnter(t) ==
    /\ th[t].pc = "put_enter"
    /\ th' = [th EXCEPT ![t].pc = "pack_header", ![t].len_before = length,
                        ![t].size_before = Size]
    /\ UNCHANGED <<enc, pkv, count, lock, stv, st_sp, st_lock, accepted, last, hist>>

\* _pack_trace up to the lock: the trace's array header and dd_origin.
PackTraceHeader(t) ==
    /\ th[t].pc = "pack_header"
    /\ LET tr == TraceOf(th[t].trace)
           hdr == msgpack_pack_array(Len(tr))
       IN  /\ buf' = WriteAt(buf, length, hdr)
           /\ length' = length + Len(hdr)
           /\ th' = [th EXCEPT ![t].pc = "pack_lock",
                               ![t].dd_origin = TraceOrigin(tr)]
    /\ UNCHANGED <<enc, count, lock, stv, st_sp, st_lock, accepted, last, hist>>

\* _pack_trace: with self._lock.
PackLock(t) ==
    /\ th[t].pc = "pack_lock"
    /\ lock = "free"
    /\ lock' = t
    /\ th' = [th EXCEPT ![t].pc = "pack_span", ![t].i = 1]
    /\ UNCHANGED <<enc, pkv, count, stv, st_sp, st_lock, accepted, last, hist>>

\* PackSpan keeping the lock when a span raises.
PackSpanKeepsLock(t) ==
    /\ th[t].pc = "pack_span"
    /\ th[t].i <= Len(TraceOf(th[t].trace))
    /\ LET c == Run(Ctx(st_index),
                    pack_span(dialect, TraceOf(th[t].trace)[th[t].i], th[t].dd_origin))
       IN  /\ buf' = WriteAt(buf, length, c.out)
           /\ length' = length + Len(c.out)
           /\ st_index' = c.idx
           /\ st_buf' = WriteAt(st_buf, st_length, c.sout)
           /\ st_length' = st_length + Len(c.sout)
           /\ IF c.ok
              THEN /\ th' = [th EXCEPT ![t].i = @ + 1]
                   /\ lock' = lock
              ELSE /\ th' = [th EXCEPT ![t].pc = "put_except", ![t].exc = "PackError"]
                   /\ lock' = lock
    /\ UNCHANGED <<enc, count, st_sp, st_lock, accepted, last, hist>>

\* _pack_trace: one round of the loop, self.pack_span(span, dd_origin).  A
\* span that raises leaves the with block, which releases the lock.
PackSpan(t) ==
    /\ th[t].pc = "pack_span"
    /\ th[t].i <= Len(TraceOf(th[t].trace))
    /\ LET c == Run(Ctx(st_index),
                    pack_span(dialect, TraceOf(th[t].trace)[th[t].i], th[t].dd_origin))
       IN  /\ buf' = WriteAt(buf, length, c.out)
           /\ length' = length + Len(c.out)
           /\ st_index' = c.idx
           /\ st_buf' = WriteAt(st_buf, st_length, c.sout)
           /\ st_length' = st_length + Len(c.sout)
           /\ IF c.ok
              THEN /\ th' = [th EXCEPT ![t].i = @ + 1]
                   /\ lock' = lock
              ELSE /\ th' = [th EXCEPT ![t].pc = "put_except", ![t].exc = "PackError"]
                   /\ lock' = "free"
    /\ UNCHANGED <<enc, count, st_sp, st_lock, accepted, last, hist>>

\* _pack_trace: the loop is over, the with block releases the lock.
PackUnlock(t) ==
    /\ th[t].pc = "pack_span"
    /\ th[t].i > Len(TraceOf(th[t].trace))
    /\ lock' = "free"
    /\ Goto(t, "put_check")
    /\ UNCHANGED <<enc, pkv, count, stv, st_sp, st_lock, accepted, last, hist>>

\* PutCheck with the check against max_size left out.
PutCheckNoBufferFull(t) ==
    /\ th[t].pc = "put_check"
    /\ LET delta == Size - th[t].size_before
       IN  IF delta > max_item_size
           THEN /\ th' = [th EXCEPT ![t].pc = "put_except",
                                    ![t].exc = "BufferItemTooLarge", ![t].arg = delta]
                /\ UNCHANGED <<count, accepted, last, hist>>
           ELSE /\ count' = count + 1
                /\ accepted' = Append(accepted, th[t].trace)
                /\ Return(t, "none", 0, None)
    /\ UNCHANGED <<enc, pkv, lock, stv, st_sp, st_lock>>

\* PutCheck refusing an item of exactly max_item_size.
PutCheckItemAtLeast(t) ==
    /\ th[t].pc = "put_check"
    /\ LET delta == Size - th[t].size_before
       IN  IF delta >= max_item_size
           THEN /\ th' = [th EXCEPT ![t].pc = "put_except",
                                    ![t].exc = "BufferItemTooLarge", ![t].arg = delta]
                /\ UNCHANGED <<count, accepted, last, hist>>
           ELSE IF Size > max_size
           THEN /\ th' = [th EXCEPT ![t].pc = "put_except",
                                    ![t].exc = "BufferFull", ![t].arg = delta]
                /\ UNCHANGED <<count, accepted, last, hist>>
           ELSE /\ count' = count + 1
                /\ accepted' = Append(accepted, th[t].trace)
                /\ Return(t, "none", 0, None)
    /\ UNCHANGED <<enc, pkv, lock, stv, st_sp, st_lock>>

\* PutCheck testing max_size before max_item_size.
PutCheckFullFirst(t) ==
    /\ th[t].pc = "put_check"
    /\ LET delta == Size - th[t].size_before
       IN  IF Size > max_size
           THEN /\ th' = [th EXCEPT ![t].pc = "put_except",
                                    ![t].exc = "BufferFull", ![t].arg = delta]
                /\ UNCHANGED <<count, accepted, last, hist>>
           ELSE IF delta > max_item_size
           THEN /\ th' = [th EXCEPT ![t].pc = "put_except",
                                    ![t].exc = "BufferItemTooLarge", ![t].arg = delta]
                /\ UNCHANGED <<count, accepted, last, hist>>
           ELSE /\ count' = count + 1
                /\ accepted' = Append(accepted, th[t].trace)
                /\ Return(t, "none", 0, None)
    /\ UNCHANGED <<enc, pkv, lock, stv, st_sp, st_lock>>

\* MsgpackEncoder.put: the two size checks, then self._count += 1.
PutCheck(t) ==
    /\ th[t].pc = "put_check"
    /\ LET delta == Size - th[t].size_before
       IN  IF delta > max_item_size
           THEN /\ th' = [th EXCEPT ![t].pc = "put_except",
                                    ![t].exc = "BufferItemTooLarge", ![t].arg = delta]
                /\ UNCHANGED <<count, accepted, last, hist>>
           ELSE IF Size > max_size
           THEN /\ th' = [th EXCEPT ![t].pc = "put_except",
                                    ![t].exc = "BufferFull", ![t].arg = delta]
                /\ UNCHANGED <<count, accepted, last, hist>>
           ELSE /\ count' = count + 1
                /\ accepted' = Append(accepted, th[t].trace)
                /\ Return(t, "none", 0, None)
    /\ UNCHANGED <<enc, pkv, lock, stv, st_sp, st_lock>>

\* PutExcept with the rewind of the cursor left out.
PutExceptKeepsCursor(t) ==
    /\ th[t].pc = "put_except"
    /\ IF dialect = "v05"
       THEN Goto(t, "rollback") /\ UNCHANGED <<last, hist>>
       ELSE Return(t, th[t].exc, th[t].arg, None)
    /\ UNCHANGED <<enc, pkv, count, lock, stv, st_sp, st_lock, accepted>>

\* MsgpackEncoder.put: except: self.pk.length = len_before; raise.
PutExcept(t) ==
    /\ th[t].pc = "put_except"
    /\ length' = th[t].len_before
    /\ buf' = Dead(buf, th[t].len_before, th[t].len_before)
    /\ IF dialect = "v05"
       THEN Goto(t, "rollback") /\ UNCHANGED <<last, hist>>
       ELSE Return(t, th[t].exc, th[t].arg, None)
    /\ UNCHANGED <<enc, count, lock, stv, st_sp, st_lock, accepted>>

\* MsgpackEncoderV05.put: except Exception: self._st.rollback(); raise.
Rollback(t) ==
    /\ th[t].pc = "rollback"
    /\ st_length' = IF st_sp > 0 THEN st_sp ELSE st_length
    /\ st_buf' = Dead(st_buf, st_length', st_length')
    /\ Return(t, th[t].exc, th[t].arg, None)
    /\ UNCHANGED <<enc, pkv, count, lock, st_index, st_sp, st_lock, accepted>>

-----------------------------------------------------------------------------
(* encode / flush *)

\* A caller starts encode().
CallEncode(t) ==
    /\ th[t].pc = "idle"
    /\ CanEncode(t)
    /\ th' = [th EXCEPT ![t].pc = "encode", ![t].op = "encode", ![t].entry = Entry]
    /\ last' = NoLast
    /\ UNCHANGED <<enc, pkv, count, lock, stv, st_sp, st_lock, accepted, hist>>

\* MsgpackEncoder.encode: if not self._count: return None; else self.flush().
EncodeTest(t) ==
    /\ th[t].pc = "encode"
    /\ IF count = 0
       THEN Return(t, "none", 0, None)
       ELSE Goto(t, "ual_read") /\ UNCHANGED <<last, hist>>
    /\ UNCHANGED <<enc, pkv, count, lock, stv, st_sp, st_lock, accepted>>

\* A caller starts get_bytes().
CallGetBytes(t) ==
    /\ th[t].pc = "idle"
    /\ mode = "seq" /\ t = "p1"
    /\ th' = [th EXCEPT ![t].pc = "ual_read", ![t].op = "get_bytes", ![t].entry = Entry]
    /\ last' = NoLast
    /\ UNCHANGED <<enc, pkv, count, lock, stv, st_sp, st_lock, accepted, hist>>

\* _update_array_len: offset and old_pos, read before the lock is taken.
UalRead(t) ==
    /\ th[t].pc = "ual_read"
    /\ th' = [th EXCEPT ![t].pc = "ual_lock",
                        ![t].offset = 5 - array_prefix_size(count),
                        ![t].old_pos = length]
    /\ UNCHANGED <<enc, pkv, count, lock, stv, st_sp, st_lock, accepted, last, hist>>

\* _update_array_len: with self._lock.
UalLock(t) ==
    /\ th[t].pc = "ual_lock"
    /\ lock = "free"
    /\ lock' = t
    /\ Goto(t, "ual_patch")
    /\ UNCHANGED <<enc, pkv, count, stv, st_sp, st_lock, accepted, last, hist>>

\* UalPatch writing the header of the length before the last put.
UalPatchStaleCount(t) ==
    /\ th[t].pc = "ual_patch"
    /\ LET hdr == msgpack_pack_array(count - 1)
       IN  /\ buf' = WriteAt(buf, th[t].offset, hdr)
           /\ length' = th[t].offset + Len(hdr)
    /\ Goto(t, "ual_restore")
    /\ UNCHANGED <<enc, count, lock, stv, st_sp, st_lock, accepted, last, hist>>

\* _update_array_len: self.pk.length = offset; msgpack_pack_array(&self.pk, self._count).
UalPatch(t) ==
    /\ th[t].pc = "ual_patch"
    /\ LET hdr == msgpack_pack_array(count)
       IN  /\ buf' = WriteAt(buf, th[t].offset, hdr)
           /\ length' = th[t].offset + Len(hdr)
    /\ Goto(t, "ual_restore")
    /\ UNCHANGED <<enc, count, lock, stv, st_sp, st_lock, accepted, last, hist>>

\* UalRestore leaving the cursor behind the header it wrote.
UalRestoreKeepsCursor(t) ==
    /\ th[t].pc = "ual_restore"
    /\ length' = length
    /\ lock' = "free"
    /\ Goto(t, IF dialect = "v05" /\ th[t].op = "encode" THEN "v05_size" ELSE "gb_lock")
    /\ UNCHANGED <<enc, buf, count, stv, st_sp, st_lock, accepted, last, hist>>

\* _update_array_len: self.pk.length = old_pos; return offset (the lock is
\* released).  The caller is get_bytes, or get_buffer in the flush of V05.
UalRestore(t) ==
    /\ th[t].pc = "ual_restore"
    /\ length' = th[t].old_pos
    /\ lock' = "free"
    /\ Goto(t, IF dialect = "v05" /\ th[t].op = "encode" THEN "v05_size" ELSE "gb_lock")
    /\ UNCHANGED <<enc, buf, count, stv, st_sp, st_lock, accepted, last, hist>>

\* MsgpackEncoder.get_bytes: with self._lock.
GetBytesLock(t) ==
    /\ th[t].pc = "gb_lock"
    /\ lock = "free"
    /\ lock' = t
    /\ Goto(t, "gb_read")
    /\ UNCHANGED <<enc, pkv, count, stv, st_sp, st_lock, accepted, last, hist>>

\* GetBytesRead returning the buffer from its start, reserved prefix included.
GetBytesReadFromStart(t) ==
    /\ th[t].pc = "gb_read"
    /\ th' = [th EXCEPT ![t].pc = "flush_finally", ![t].out = Slice(buf, 0, length)]
    /\ lock' = "free"
    /\ UNCHANGED <<enc, pkv, count, stv, st_sp, st_lock, accepted, last, hist>>

\* MsgpackEncoder.get_bytes: the bytes from offset to the cursor, returned
\* to the caller or to the flush of V03.
GetBytesRead(t) ==
    /\ th[t].pc = "gb_read"
    /\ IF th[t].op = "get_bytes"
       THEN Return(t, "none", 0, Slice(buf, th[t].offset, length - th[t].offset))
       ELSE /\ th' = [th EXCEPT ![t].pc = "flush_finally",
                                ![t].out = Slice(buf, th[t].offset, length - th[t].offset)]
            /\ UNCHANGED <<last, hist>>
    /\ lock' = "free"
    /\ UNCHANGED <<enc, pkv, count, stv, st_sp, st_lock, accepted>>

\* FlushFinally with the counter left as it is.
FlushFinallyKeepsCount(t) ==
    /\ th[t].pc = "flush_finally"
    /\ length' = 5
    /\ buf' = Dead(buf, 0, 5)
    /\ accepted' = <<>>
    /\ Return(t, th[t].exc, th[t].arg, th[t].out)
    /\ UNCHANGED <<enc, count, lock, stv, st_sp, st_lock>>

\* flush of V03 and V05: finally: self.pk.length = 5; self._count = 0.
FlushFinally(t) ==
    /\ th[t].pc = "flush_finally"
    /\ length' = 5
    /\ buf' = Dead(buf, 0, 5)
    /\ count' = 0
    /\ accepted' = <<>>
    /\ Return(t, th[t].exc, th[t].arg, th[t].out)
    /\ UNCHANGED <<enc, lock, stv, st_sp, st_lock>>

\* MsgpackEncoderV05.flush: the size argument, super().size.
V05Size(t) ==
    /\ th[t].pc = "v05_size"
    /\ th' = [th EXCEPT ![t].pc = "ar_lock", ![t].size = BaseSize]
    /\ UNCHANGED <<enc, pkv, count, lock, stv, st_sp, st_lock, accepted, last, hist>>

\* MsgpackStringTable.append_raw: with self._lock.
AppendRawLock(t) ==
    /\ th[t].pc = "ar_lock"
    /\ st_lock = "free"
    /\ st_lock' = t
    /\ Goto(t, "ar_copy")
    /\ UNCHANGED <<enc, pkv, count, lock, stv, st_sp, accepted, last, hist>>

\* MsgpackStringTable.append_raw: the assertion, then the copy of size bytes
\* from the payload buffer at offset to the table's cursor.
AppendRaw(t) ==
    /\ th[t].pc = "ar_copy"
    /\ st_lock' = "free"
    /\ IF StSize + th[t].size <= max_size
       THEN LET bytes == Slice(buf, th[t].offset, th[t].size)
            IN  /\ st_buf' = WriteAt(st_buf, st_length, bytes)
                /\ st_length' = st_length + Len(bytes)
                /\ Goto(t, "st_gb_read")
       ELSE /\ th' = [th EXCEPT ![t].pc = "flush_finally", ![t].exc = "AssertionError"]
            /\ UNCHANGED <<st_buf, st_length>>
    /\ UNCHANGED <<enc, pkv, count, lock, st_index, st_sp, accepted, last, hist>>

\* MsgpackStringTable.get_bytes: l, offset and old_pos, read before the lock.
StGetBytesRead(t) ==
    /\ th[t].pc = "st_gb_read"
    /\ th' = [th EXCEPT ![t].pc = "st_gb_lock",
                        ![t].l = Len(st_index),
                        ![t].offset = 6 - array_prefix_size(Len(st_index)),
                        ![t].old_pos = st_length]
    /\ UNCHANGED <<enc, pkv, count, lock, stv, st_sp, st_lock, accepted, last, hist>>

\* MsgpackStringTable.get_bytes: with self._lock.
StGetBytesLock(t) ==
    /\ th[t].pc = "st_gb_lock"
    /\ st_lock = "free"
    /\ st_lock' = t
    /\ Goto(t, "st_gb_patch")
    /\ UNCHANGED <<enc, pkv, count, lock, stv, st_sp, accepted, last, hist>>

\* MsgpackStringTable.get_bytes: the table's array header at offset, then the
\* root array header one byte before it; the cursor is left after that byte.
StGetBytesPatch(t) ==
    /\ th[t].pc = "st_gb_patch"
    /\ LET b1 == WriteAt(st_buf, th[t].offset, msgpack_pack_array(th[t].l))
           root == msgpack_pack_array(2)
       IN  /\ st_buf' = WriteAt(b1, th[t].offset - 1, root)
           /\ st_length' = th[t].offset - 1 + Len(root)
    /\ th' = [th EXCEPT ![t].pc = "st_gb_restore", ![t].offset = @ - 1,
                        ![t].cur = st_length]
    /\ UNCHANGED <<enc, pkv, count, lock, st_index, st_sp, st_lock, accepted, last, hist>>

\* MsgpackStringTable.get_bytes: self.pk.length = old_pos (the lock is released).
StGetBytesRestore(t) ==
    /\ th[t].pc = "st_gb_restore"
    /\ st_length' = th[t].old_pos
    /\ st_lock' = "free"
    /\ Goto(t, "st_gb_bytes")
    /\ UNCHANGED <<enc, pkv, count, lock, st_index, st_buf, st_sp, accepted, last, hist>>

\* MsgpackStringTable.get_bytes: the returned bytes, from offset to the cursor.
StGetBytesBytes(t) ==
    /\ th[t].pc = "st_gb_bytes"
    /\ th' = [th EXCEPT ![t].pc = "st_reset",
                        ![t].out = Slice(st_buf, th[t].offset, st_length - th[t].offset)]
    /\ UNCHANGED <<enc, pkv, count, lock, stv, st_sp, st_lock, accepted, last, hist>>

\* MsgpackStringTable.flush: finally: self.reset() (which clears the index and
\* interns "" again, at the cursor); self.pk.length = 6; self._sp = 0.
StFlushFinally(t) ==
    /\ th[t].pc = "st_reset"
    /\ st_index' = << <<>> >>
    /\ st_buf' = Dead(WriteAt(st_buf, st_length, pack_text(<<>>).bytes), 0, 6)
    /\ st_length' = 6
    /\ st_sp' = 0
    /\ Goto(t, "flush_finally")
    /\ UNCHANGED <<enc, pkv, count, lock, st_lock, accepted, last, hist>>

-----------------------------------------------------------------------------

Next ==
    \E t \in Threads :
        \/ CallPut(t) \/ Savepoint(t) \/ PutEnter(t) \/ PackTraceHeader(t)
        \/ PackLock(t) \/ PackSpan(t) \/ PackUnlock(t) \/ PutCheck(t)
        \/ PutExcept(t) \/ Rollback(t)
        \/ CallEncode(t) \/ EncodeTest(t) \/ UalRead(t) \/ UalLock(t)
        \/ UalPatch(t) \/ UalRestore(t) \/ GetBytesLock(t) \/ GetBytesRead(t)
        \/ FlushFinally(t) \/ V05Size(t) \/ AppendRawLock(t) \/ AppendRaw(t)
        \/ StGetBytesRead(t) \/ StGetBytesLock(t) \/ StGetBytesPatch(t)
        \/ StGetBytesRestore(t) \/ StGetBytesBytes(t) \/ StFlushFinally(t)

\* One caller at a time.
Spec == Init /\ [][Next]_vars

InitConc == InitWith("conc", ConfigsConc)

\* The runs in which the caller also calls get_bytes().
ConfigsGetBytes ==
    {[dialect |-> "v03", max_size |-> 18, max_item_size |-> 18, inputs |-> {"empty"}],
     [dialect |-> "v03", max_size |-> MaxSizeV03, max_item_size |-> MaxSizeV03 - 2,
      inputs |-> {"one"}],
     [dialect |-> "v05", max_size |-> MaxSizeV05, max_item_size |-> MaxSizeV05 - 4,
      inputs |-> {"empty", "one"}]}

InitGetBytes == InitWith("seq", ConfigsGetBytes)

NextGetBytes == Next \/ \E t \in Threads : CallGetBytes(t)

\* One caller at a time, calling put, get_bytes and encode.
SpecGetBytes == InitGetBytes /\ [][NextGetBytes]_vars

\* A buffer that holds one trace with a 64-bit number and not two.
MaxSizeNumbers == 120

\* Encoders whose callers put spans with numbers at and beyond the limits
\* of the 64-bit types.
ConfigsNumbers ==
    {[dialect |-> "v03", max_size |-> MaxSizeNumbers, max_item_size |-> MaxSizeNumbers,
      inputs |-> ins] : ins \in {{"max", "over"}, {"min", "under"}, {"one", "over", "under"}}}
    \cup {[dialect |-> "v05", max_size |-> MaxSizeV05, max_item_size |-> MaxSizeV05 - 4,
            inputs |-> {"empty", "one"}]}

InitNumbers == InitWith("seq", ConfigsNumbers)

SpecNumbers == InitNumbers /\ [][Next]_vars

\* Two producers calling put and one consumer calling encode.
SpecConc == InitConc /\ [][Next]_vars

\* A step of thread t inside a call.
Running(t) ==
    \/ Savepoint(t) \/ PutEnter(t) \/ PackTraceHeader(t)
    \/ PackLock(t) \/ PackSpan(t) \/ PackUnlock(t) \/ PutCheck(t)
    \/ PutExcept(t) \/ Rollback(t)
    \/ EncodeTest(t) \/ UalRead(t) \/ UalLock(t)
    \/ UalPatch(t) \/ UalRestore(t) \/ GetBytesLock(t) \/ GetBytesRead(t)
    \/ FlushFinally(t) \/ V05Size(t) \/ AppendRawLock(t) \/ AppendRaw(t)
    \/ StGetBytesRead(t) \/ StGetBytesLock(t) \/ StGetBytesPatch(t)
    \/ StGetBytesRestore(t) \/ StGetBytesBytes(t) \/ StFlushFinally(t)

\* The runs with two producers and a consumer in which calls are followed
\* to their end: a trace that is accepted and one that raises.
ConfigsFair ==
    {[dialect |-> d, max_size |-> MaxSizeV05, max_item_size |-> MaxSizeV05 - 4,
      inputs |-> {"empty", "bad"}] : d \in {"v03", "v05"}}

InitFair == InitWith("conc", ConfigsFair)

\* Thread t is inside a call and its next step does not wait for a lock
\* another thread holds: ENABLED <<Running(t)>>_vars.
CanRun(t) ==
    /\ th[t].pc # "idle"
    /\ th[t].pc \in {"pack_lock", "ual_lock", "gb_lock"} => lock = "free"
    /\ th[t].pc \in {"ar_lock", "st_gb_lock"} => st_lock = "free"

\* WF_vars(Running(t)), with the enabling condition written out and the
\* step of t told by its locals (a step of a call changes the caller's
\* program counter or loop index, and nothing of another thread's): a thread
\* whose next step stays possible takes it eventually.
Scheduled(t) == []<>(~CanRun(t)) \/ []<><<th[t].pc # "idle" /\ th'[t] # th[t]>>_vars

\* Two producers and a consumer, every thread that is inside a call being
\* scheduled again and again.  Nothing makes a caller start a call.
SpecConcFair == InitFair /\ [][Next]_vars /\ \A t \in Threads : Scheduled(t)

-----------------------------------------------------------------------------
(* The string tables on their own: StringTable and its two subclasses.     *)
(* tbl.index is _index (has_index is FALSE while _index is still None),    *)
(* tbl.list is ListStringTable._list, tbl.body the bytes of                *)
(* MsgpackStringTable.pk from offset 6 to the cursor.                      *)

\* The texts the callers intern.
TblStrings == {<<>>, T_s, T_n, T_r}

\* Bytes a table's buffer holds at most in a run.
MaxTblBytes == 8

\* d[k] = v.
DictSet(d, k, v) == [s \in DOMAIN d \cup {k} |-> IF s = k THEN v ELSE d[s]]

\* StringTable.__len__.
TblLen(t) == Cardinality(DOMAIN t.index)

\* insert of the table's class.
TblInsert(t, string) ==
    IF t.variant = "list" THEN [t EXCEPT !.list = Append(@, string)]
    ELSE [t EXCEPT !.body = @ \o pack_text(string).bytes]

\* StringTable.index: the table after the call, the exception, the id.
\* A subscript of None raises TypeError, which except KeyError lets through.
StringTable_index(t, string) ==
    IF string = None THEN [t |-> t, exc |-> "none", ret |-> 0]
    ELSE IF ~t.has_index THEN [t |-> t, exc |-> "TypeError", ret |-> 0]
    ELSE IF string \in DOMAIN t.index
    THEN [t |-> t, exc |-> "none", ret |-> t.index[string]]
    ELSE [t |-> TblInsert([t EXCEPT !.index = DictSet(@, string, TblLen(t))], string),
          exc |-> "none", ret |-> TblLen(t)]

\* StringTable.reset: _index.clear(), then assert self.index("") == 0.
StringTable_reset(t) ==
    IF ~t.has_index THEN [t |-> t, exc |-> "AttributeError"]
    ELSE LET r == StringTable_index([t EXCEPT !.index = EmptyDict], <<>>)
         IN  [t |-> r.t, exc |-> IF r.ret = 0 THEN "none" ELSE "AssertionError"]

\* StringTable.__init__.
StringTable_init(t) ==
    TblInsert([t EXCEPT !.has_index = TRUE, !.index = DictSet(EmptyDict, <<>>, 0)], <<>>)

\* ListStringTable(): super(StringTable, self).__init__() is object.__init__,
\* so StringTable.__init__ does not run and _index stays None.
NewListStringTable == [NoTable EXCEPT !.variant = "list", !.list = <<>>]

\* MsgpackStringTable(max_size): pk.length = 6, then StringTable.__init__.
NewMsgpackStringTable == StringTable_init([NoTable EXCEPT !.variant = "msgpack"])

\* MsgpackStringTable.get_bytes on the table t.
TblGetBytes(t) ==
    LET l == TblLen(t)
        offset == 6 - array_prefix_size(l)
        b0 == [k \in 1..StReservedPrefix |-> Uninit] \o t.body
        b1 == WriteAt(b0, offset, msgpack_pack_array(l))
        b2 == WriteAt(b1, offset - 1, msgpack_pack_array(2))
    IN  Slice(b2, offset - 1, StReservedPrefix + Len(t.body) - (offset - 1))

\* The encoder as built, unused in the runs of a string table on its own.
InitTable ==
    /\ EncoderInit("table", {[dialect |-> "v05", max_size |-> MaxSizeV05,
                              max_item_size |-> MaxSizeV05, inputs |-> {}]})
    /\ tbl \in {NewListStringTable, NewMsgpackStringTable}
    /\ hp = NoHeader
    /\ pt = NoPack
    /\ cv = NoConverter
    /\ ex = NoExport

encv == <<dialect, mode, max_size, max_item_size, inputs, pkv, count, lock, stv,
          st_sp, st_lock, th, accepted, last, hist>>
tblv == <<encv, hp, pt, cv, ex>>
hdrv == <<encv, tbl, pt, cv, ex>>
ptv == <<encv, tbl, hp, cv, ex>>

\* A call of index(string).
TblIndex(string) ==
    /\ tbl.variant # "none"
    /\ (tbl.variant = "msgpack" /\ string # None /\ string \notin DOMAIN tbl.index)
          => Len(tbl.body) + Len(pack_text(string).bytes) <= MaxTblBytes
    /\ LET r == StringTable_index(tbl, string)
           known == string \in DOMAIN tbl.first
       IN  tbl' = [r.t EXCEPT
                      !.first = IF r.exc = "none" /\ string # None /\ ~known
                                THEN DictSet(@, string, r.ret) ELSE @,
                      !.last = [NoTblLast EXCEPT !.op = "index", !.arg = string,
                                    !.exc = r.exc, !.ret = r.ret, !.known = known,
                                    !.first = IF known THEN tbl.first[string] ELSE 0,
                                    !.new = string # None /\ string \notin DOMAIN tbl.index,
                                    !.len = TblLen(tbl)]]
    /\ UNCHANGED tblv

\* A call of reset().
TblReset ==
    /\ tbl.variant # "none"
    /\ tbl.variant = "msgpack" => Len(tbl.body) + 1 <= MaxTblBytes
    /\ LET r == StringTable_reset(tbl)
       IN  tbl' = [r.t EXCEPT
                      !.first = IF r.exc = "none" THEN DictSet(EmptyDict, <<>>, 0) ELSE @,
                      !.last = [NoTblLast EXCEPT !.op = "reset", !.exc = r.exc,
                                    !.len = TblLen(tbl)]]
    /\ UNCHANGED tblv

\* A call of MsgpackStringTable.flush(): get_bytes(), and in the finally
\* clause reset(), pk.length = 6 and _sp = 0.
TblFlush ==
    /\ tbl.variant = "msgpack"
    /\ LET r == StringTable_reset(tbl)
       IN  tbl' = [r.t EXCEPT
                      !.body = <<>>,
                      !.first = DictSet(EmptyDict, <<>>, 0),
                      !.last = [NoTblLast EXCEPT !.op = "flush", !.exc = r.exc,
                                    !.out = TblGetBytes(tbl), !.len = TblLen(tbl)]]
    /\ UNCHANGED tblv

NextTable ==
    \/ \E string \in TblStrings \cup {None} : TblIndex(string)
    \/ TblReset
    \/ TblFlush

\* One caller of one string table.
SpecTable == InitTable /\ [][NextTable]_vars

-----------------------------------------------------------------------------
(* _pack_trace on a fresh encoder, for spans of every shape *)

InitPack ==
    /\ EncoderInit("pack", {[dialect |-> "v03", max_size |-> MaxSizeV03,
                             max_item_size |-> MaxSizeV03, inputs |-> {}]})
    /\ tbl = NoTable
    /\ hp = NoHeader
    /\ cv = NoConverter
    /\ ex = NoExport
    /\ \E d \in {"v03", "v05"}, trace \in PackTraces : pt = Packing(d, trace)

\* _pack_trace: msgpack_pack_array(&self.pk, L); dd_origin from trace[0].context.
PtHeader ==
    /\ pt.pc = "header"
    /\ pt' = [pt EXCEPT !.pc = "span",
                        !.out = msgpack_pack_array(Len(pt.trace)),
                        !.dd_origin = TraceOrigin(pt.trace)]
    /\ UNCHANGED ptv

\* _pack_trace: ret = self.pack_span(span, dd_origin) for the next span.
PtSpan ==
    /\ pt.pc = "span"
    /\ pt.i <= Len(pt.trace)
    /\ LET c == Run(Ctx(pt.idx), pack_span(pt.dialect, pt.trace[pt.i], pt.dd_origin))
       IN  pt' = [pt EXCEPT !.pc = IF c.ok THEN "span" ELSE "raised",
                           !.i = @ + 1,
                           !.out = @ \o c.out,
                           !.idx = c.idx,
                           !.sout = @ \o c.sout,
                           !.spans = Append(@, c.out)]
    /\ UNCHANGED ptv

\* _pack_trace: return ret.
PtReturn ==
    /\ pt.pc = "span"
    /\ pt.i > Len(pt.trace)
    /\ pt' = [pt EXCEPT !.pc = "done"]
    /\ UNCHANGED ptv

NextPack == PtHeader \/ PtSpan \/ PtReturn

\* One caller of _pack_trace.
SpecPack == InitPack /\ [][NextPack]_vars

-----------------------------------------------------------------------------
(* get_bytes on an encoder or a string table that holds many items *)

InitHeader ==
    /\ EncoderInit("header", {[dialect |-> "v03", max_size |-> MaxSizeV03,
                               max_item_size |-> MaxSizeV03, inputs |-> {}]})
    /\ tbl = NoTable
    /\ pt = NoPack
    /\ cv = NoConverter
    /\ ex = NoExport
    /\ \E kind \in {"encoder", "table"}, n \in HeaderCounts : hp = Holding(kind, n)

\* offset = 5 - array_prefix_size(self._count) (6 and len(self._index) in
\* the table); old_pos = self.pk.length.
HdrRead ==
    /\ hp.kind # "none" /\ hp.pc = "read"
    /\ hp' = [hp EXCEPT !.pc = "patch",
                           !.offset = (IF hp.kind = "encoder" THEN 5 ELSE 6)
                                      - array_prefix_size(hp.n),
                           !.old_pos = hp.length]
    /\ UNCHANGED hdrv

\* HdrPatch writing the header of one item less.
HdrPatchOneLess ==
    /\ hp.pc = "patch"
    /\ hp' = [hp EXCEPT !.pc = "restore",
                           !.head = WriteAt(hp.head, hp.offset, msgpack_pack_array(hp.n - 1)),
                           !.end = hp.offset + Len(msgpack_pack_array(hp.n - 1))]
    /\ UNCHANGED hdrv

\* self.pk.length = offset; msgpack_pack_array(&self.pk, n); in the table
\* then self.pk.length = offset = offset - 1; msgpack_pack_array(&self.pk, 2).
\* end is the cursor after the header of the n items.
HdrPatch ==
    /\ hp.pc = "patch"
    /\ LET b1 == WriteAt(hp.head, hp.offset, msgpack_pack_array(hp.n))
       IN  hp' = [hp EXCEPT
                      !.pc = "restore",
                      !.end = hp.offset + Len(msgpack_pack_array(hp.n)),
                      !.head = IF hp.kind = "encoder" THEN b1
                               ELSE WriteAt(b1, hp.offset - 1, msgpack_pack_array(2)),
                      !.offset = IF hp.kind = "encoder" THEN @ ELSE @ - 1,
                      !.length = IF hp.kind = "encoder"
                                 THEN hp.offset + Len(msgpack_pack_array(hp.n))
                                 ELSE hp.offset - 1 + Len(msgpack_pack_array(2))]
    /\ UNCHANGED hdrv

\* self.pk.length = old_pos.
HdrRestore ==
    /\ hp.pc = "restore"
    /\ hp' = [hp EXCEPT !.pc = "bytes", !.length = hp.old_pos]
    /\ UNCHANGED hdrv

\* PyBytes_FromStringAndSize(self.pk.buf + offset, self.pk.length - offset):
\* out is the part of the bytes that lies in the head, out_len their number.
HdrBytes ==
    /\ hp.pc = "bytes"
    /\ hp' = [hp EXCEPT !.pc = "done",
                           !.out = Slice(hp.head, hp.offset, Len(hp.head) - hp.offset),
                           !.out_len = hp.length - hp.offset]
    /\ UNCHANGED hdrv

NextHeader == HdrRead \/ HdrPatch \/ HdrRestore \/ HdrBytes

\* One caller of get_bytes.
SpecHeader == InitHeader /\ [][NextHeader]_vars

-----------------------------------------------------------------------------
(* The pprof converter and exporter of                                      *)
(* src/ddtrace/profiling/exporter/pprof.pyx.                                *)
(*                                                                         *)
(* A text is a sequence of symbols: a character of a text the caller gives  *)
(* is its code, a string literal of the source is one symbol of its own.    *)
(* A number an event may lack (task id, trace id, span id) is None or its   *)
(* decimal text.  A method of the converter yields the converter after the  *)
(* call, the exception it raised ("none" when it returned) and its result.  *)

\* The string literals of pprof.pyx that reach the string table.
Literals ==
    <<"<unknown function>", "<", " frame", " omitted>", "None", "Anonymous Thread ",
      "thread id", "thread native id", "thread name", "task id", "task name",
      "trace id", "span id", "trace endpoint", "trace type", "lock name",
      "cpu-samples", "count", "cpu-time", "nanoseconds", "wall-time",
      "exception-samples", "lock-acquire", "lock-acquire-wait", "lock-release",
      "lock-release-hold", "alloc-samples", "alloc-space", "bytes", "heap-space",
      "time", "web", "python", "self", "cls">>

\* The text of the literal s.
Lit(s) == <<999 + (CHOOSE i \in DOMAIN Literals : Literals[i] = s)>>

\* "%d" % n.
RECURSIVE IntStr(_)
IntStr(n) ==
    IF n < 0 THEN <<45>> \o IntStr(-n)
    ELSE IF n < 10 THEN <<48 + n>>
    ELSE IntStr(n \div 10) \o <<48 + (n % 10)>>

\* str(x) of a text or None.
str(x) == IF x = None THEN Lit("None") ELSE x

\* sum(ns).
RECURSIVE Sum(_)
Sum(ns) == IF ns = <<>> THEN 0 ELSE ns[1] + Sum(Tail(ns))

\* Python's order of sequences: the first differing element decides, a
\* proper prefix comes first.
LexLess(a, b, less(_, _)) ==
    \E i \in 1..(Len(a) + 1) :
        /\ i <= Len(b)
        /\ \A j \in 1..(i - 1) : a[j] = b[j]
        /\ (i > Len(a) \/ less(a[i], b[i]))

IntLess(x, y) == x < y

TextLess(a, b) == LexLess(a, b, IntLess)

\* (filename, lineno, funcname) < (filename, lineno, funcname).
FrameLess(f, g) ==
    IF f[1] # g[1] THEN TextLess(f[1], g[1])
    ELSE IF f[2] # g[2] THEN f[2] < g[2]
    ELSE TextLess(f[3], g[3])

FramesLess(a, b) == LexLess(a, b, FrameLess)

\* sorted(S, key=...) of a set of distinct keys under the order less.
SortedSeq(items, less(_, _)) ==
    [i \in 1..Cardinality(items) |->
        CHOOSE k \in items : Cardinality({k2 \in items : less(k2, k)}) = i - 1]

Ret(c, exc, ret) == [c |-> c, exc |-> exc, ret |-> ret]

\* _PprofConverter(): the attrs factories.  _last_location_id and
\* _last_func_id hold the next_id of their _Sequence, which starts at 1.
NewPprofConverter ==
    [functions |-> EmptyDict, locations |-> EmptyDict,
     string_table |-> NewListStringTable,
     last_location_id |-> 1, last_func_id |-> 1,
     location_values |-> EmptyDict]

\* _PprofConverter._str.
_str(c, string) ==
    LET r == StringTable_index(c.string_table, str(string))
    IN  Ret([c EXCEPT !.string_table = r.t], r.exc, r.ret)

\* A call that raised ends the method; otherwise the method goes on as k.
Then(r, k(_)) == IF r.exc # "none" THEN r ELSE k(r)

\* self._functions[key] = func; return func.
StoreFunction(c, key, func) ==
    Ret([c EXCEPT !.functions = DictSet(@, key, func)], "none", func)

\* _PprofConverter._to_Function.  The keyword arguments of Function(...) are
\* evaluated in order: generate(), _str(funcname), _str(filename).
_to_Function(c, filename, funcname) ==
    IF <<filename, funcname>> \in DOMAIN c.functions
    THEN Ret(c, "none", c.functions[<<filename, funcname>>])
    ELSE Then(_str([c EXCEPT !.last_func_id = @ + 1], funcname), LAMBDA n :
         Then(_str(n.c, filename), LAMBDA f :
         StoreFunction(f.c, <<filename, funcname>>,
                       [id |-> c.last_func_id, name |-> n.ret, filename |-> f.ret])))

\* self._locations[key] = location; return location.
StoreLocation(c, key, location) ==
    Ret([c EXCEPT !.locations = DictSet(@, key, location)], "none", location)

\* _PprofConverter._to_Location.
_to_Location(c, filename, lineno, funcname) ==
    IF <<filename, lineno, funcname>> \in DOMAIN c.locations
    THEN Ret(c, "none", c.locations[<<filename, lineno, funcname>>])
    ELSE Then(_to_Function([c EXCEPT !.last_location_id = @ + 1], filename,
                           IF funcname = None THEN Lit("<unknown function>")
                           ELSE funcname),
              LAMBDA f :
         StoreLocation(f.c, <<filename, lineno, funcname>>,
                       [id |-> c.last_location_id,
                        line |-> <<[function_id |-> f.ret.id, line |-> lineno]>>]))

\* [self._to_Location(filename, lineno, funcname).id for ... in frames]: a
\* frame that is not a sequence of three cannot be unpacked.
RECURSIVE LocationIds(_, _, _)
LocationIds(c, frames, ids) ==
    IF frames = <<>> THEN Ret(c, "none", ids)
    ELSE IF Len(frames[1]) # 3 THEN Ret(c, "ValueError", None)
    ELSE Then(_to_Location(c, frames[1][1], frames[1][2], frames[1][3]), LAMBDA l :
         LocationIds(l.c, Tail(frames), Append(ids, l.ret.id)))

\* "<%d frame%s omitted>" % (omitted, ("s" if omitted > 1 else "")).
OmittedText(omitted) ==
    Lit("<") \o IntStr(omitted) \o Lit(" frame")
    \o (IF omitted > 1 THEN <<115>> ELSE <<>>) \o Lit(" omitted>")

\* _PprofConverter._to_locations.
_to_locations(c, frames, nframes) ==
    LET omitted == nframes - Len(frames)
    IN  Then(LocationIds(c, frames, <<>>), LAMBDA ls :
        IF omitted = 0 THEN ls
        ELSE Then(_to_Location(ls.c, <<>>, 0, OmittedText(omitted)), LAMBDA o :
             Ret(o.c, "none", Append(ls.ret, o.ret.id))))

\* self._location_values[location_key]: a defaultdict of defaultdicts.
LocValues(c, location_key) ==
    IF location_key \in DOMAIN c.location_values THEN c.location_values[location_key]
    ELSE EmptyDict

\* self._location_values[location_key][name] = v.
SetValue(c, location_key, name, v) ==
    [c EXCEPT !.location_values =
        DictSet(@, location_key, DictSet(LocValues(c, location_key), name, v))]

\* _PprofConverter.convert_stack_event; k is the group key whose fields
\* export passes one by one.
convert_stack_event(c, k, samples) ==
    Then(_to_locations(c, k[10], k[11]), LAMBDA ls :
    LET location_key ==
            <<ls.ret,
              << <<Lit("thread id"), IntStr(k[1])>>,
                 <<Lit("thread native id"), IntStr(k[2])>>,
                 <<Lit("thread name"), k[3]>>,
                 <<Lit("task id"), k[4]>>,
                 <<Lit("task name"), k[5]>>,
                 <<Lit("trace id"), k[6]>>,
                 <<Lit("span id"), k[7]>>,
                 <<Lit("trace endpoint"), k[8]>>,
                 <<Lit("trace type"), k[9]>> >> >>
        c1 == SetValue(ls.c, location_key, Lit("cpu-samples"), Len(samples))
        c2 == SetValue(c1, location_key, Lit("cpu-time"),
                       Sum([i \in 1..Len(samples) |-> samples[i].cpu_time_ns]))
        c3 == SetValue(c2, location_key, Lit("wall-time"),
                       Sum([i \in 1..Len(samples) |-> samples[i].wall_time_ns]))
    IN  Ret(c3, "none", None))

\* int(total / sampling_ratio) for the ratio num / den of whole numbers.
IntDiv(total, sampling_ratio) ==
    (total * sampling_ratio.den) \div sampling_ratio.num

\* _PprofConverter.convert_lock_acquire_event and convert_lock_release_event
\* (name is "lock-acquire" or "lock-release", time_ns the field summed); k is
\* the group key.  A sampling ratio of 0.0 makes the division raise.
convert_lock_event(c, name, k, events, sampling_ratio) ==
    Then(_to_locations(c, k[8], k[9]), LAMBDA ls :
    LET location_key ==
            <<ls.ret,
              << <<Lit("thread id"), IntStr(k[2])>>,
                 <<Lit("thread name"), k[3]>>,
                 <<Lit("trace id"), k[4]>>,
                 <<Lit("span id"), k[5]>>,
                 <<Lit("trace endpoint"), k[6]>>,
                 <<Lit("trace type"), k[7]>>,
                 <<Lit("lock name"), k[1]>> >> >>
        c1 == SetValue(ls.c, location_key, Lit(name), Len(events))
    IN  IF sampling_ratio.num = 0 THEN Ret(c1, "ZeroDivisionError", None)
        ELSE Ret(SetValue(c1, location_key,
                          Lit(IF name = "lock-acquire" THEN "lock-acquire-wait"
                              ELSE "lock-release-hold"),
                          IntDiv(Sum([i \in 1..Len(events) |-> events[i].time_ns]),
                                 sampling_ratio)),
                 "none", None))

\* round(num / den) of Python 3 for whole numbers num >= 0 and den > 0: to
\* the nearest whole number, a half to the even one.
Round(num, den) ==
    LET q == num \div den
        r == num % den
    IN  IF 2 * r < den THEN q
        ELSE IF 2 * r > den THEN q + 1
        ELSE IF q % 2 = 0 THEN q ELSE q + 1

\* The labels of a memory event.
MemLabels(thread_id, thread_native_id, thread_name) ==
    << <<Lit("thread id"), IntStr(thread_id)>>,
       <<Lit("thread native id"), IntStr(thread_native_id)>>,
       <<Lit("thread name"), thread_name>> >>

\* _PprofConverter.convert_memalloc_event; k is the group key of export, of
\* which the call is handed the fields 1, 2, 3, 10 and 11; events is not
\* empty.  alloc-space is round(number_of_alloc * average_alloc_size), that
\* is total_alloc * (sum of capture_pct / nevents / 100) * (sum of size /
\* nevents).
convert_memalloc_event(c, k, events) ==
    Then(_to_locations(c, k[10], k[11]), LAMBDA ls :
    LET location_key == <<ls.ret, MemLabels(k[1], k[2], k[3])>>
        nevents == Len(events)
        sum_pct == Sum([i \in 1..nevents |-> events[i].capture_pct])
        total_alloc == Sum([i \in 1..nevents |-> events[i].nevents])
        sum_size == Sum([i \in 1..nevents |-> events[i].size])
        c1 == SetValue(ls.c, location_key, Lit("alloc-samples"), nevents)
        c2 == SetValue(c1, location_key, Lit("alloc-space"),
                       Round(total_alloc * sum_pct * sum_size, nevents * 100 * nevents))
    IN  Ret(c2, "none", None))

\* _PprofConverter.convert_memalloc_heap_event: heap-space of the location
\* key, 0 when it was never set, plus event.size.
convert_memalloc_heap_event(c, event) ==
    Then(_to_locations(c, event.frames, event.nframes), LAMBDA ls :
    LET location_key ==
            <<ls.ret, MemLabels(event.thread_id, event.thread_native_id, event.thread_name)>>
        values == LocValues(ls.c, location_key)
        heap_space == IF Lit("heap-space") \in DOMAIN values THEN values[Lit("heap-space")]
                      ELSE 0
    IN  Ret(SetValue(ls.c, location_key, Lit("heap-space"), heap_space + event.size),
            "none", None))

\* _str of the texts lo..hi in turn: the ids.  The range is halved to keep
\* the evaluation shallow.
RECURSIVE StrRange(_, _, _, _)
StrRange(c, texts, lo, hi) ==
    IF lo > hi THEN Ret(c, "none", <<>>)
    ELSE IF lo = hi
    THEN Then(_str(c, texts[lo]), LAMBDA r : Ret(r.c, "none", <<r.ret>>))
    ELSE Then(StrRange(c, texts, lo, (lo + hi) \div 2), LAMBDA a :
         Then(StrRange(a.c, texts, (lo + hi) \div 2 + 1, hi), LAMBDA b :
         Ret(b.c, "none", a.ret \o b.ret)))

\* _str of each text in turn: the ids.
StrAll(c, texts) == StrRange(c, texts, 1, Len(texts))

\* (locations, labels) < (locations, labels), the order of sorted(...,
\* key=_ITEMGETTER_ZERO) in _build_profile.
LabelLess(x, y) == IF x[1] # y[1] THEN TextLess(x[1], y[1]) ELSE TextLess(x[2], y[2])

LocationKeyLess(a, b) ==
    IF a[1] # b[1] THEN LexLess(a[1], b[1], IntLess) ELSE LexLess(a[2], b[2], LabelLess)

IdLess(x, y) == x.id < y.id

\* The values of a dict.
DictValues(d) == {d[k] : k \in DOMAIN d}

NoProfile == [sample_type |-> <<>>, sample |-> <<>>, mapping |-> <<>>, location |-> <<>>,
              function |-> <<>>, string_table |-> <<>>, time_nanos |-> 0,
              duration_nanos |-> 0, period |-> 0, period_type |-> <<>>]

\* The texts _build_profile hands to _str, in the order of the calls: the
\* sample types, the labels of each sample in the order of the samples,
\* "time" and "nanoseconds", program_name.
ProfileTexts(keys, sample_types, program_name) ==
    Flatten(sample_types)
    \o Flatten([i \in 1..Len(keys) |-> Flatten(keys[i][2])])
    \o <<Lit("time"), Lit("nanoseconds"), program_name>>

\* The Profile message of the converter c for the samples keys, ids being
\* the ids of ProfileTexts; string_table is read after the calls of _str.
ProfileOf(c, keys, ids, start_time_ns, duration_ns, period, sample_types) ==
    LET n == Len(ids)
        \* the label ids of sample i follow the ids at 1..Off(i)
        Off(i) == 2 * Len(sample_types) + 2 * Sum([j \in 1..(i - 1) |-> Len(keys[j][2])])
    IN  [sample_type |-> [i \in 1..Len(sample_types) |->
                            [type |-> ids[2 * i - 1], unit |-> ids[2 * i]]],
         sample |-> [i \in 1..Len(keys) |->
            [location_id |-> keys[i][1],
             value |-> [j \in 1..Len(sample_types) |->
                          IF sample_types[j][1] \in DOMAIN c.location_values[keys[i]]
                          THEN c.location_values[keys[i]][sample_types[j][1]]
                          ELSE 0],
             label |-> [j \in 1..Len(keys[i][2]) |->
                          [key |-> ids[Off(i) + 2 * j - 1],
                           str |-> ids[Off(i) + 2 * j]]]]],
         mapping |-> <<[id |-> 1, filename |-> ids[n]]>>,
         location |-> SortedSeq(DictValues(c.locations), IdLess),
         function |-> SortedSeq(DictValues(c.functions), IdLess),
         string_table |-> c.string_table.list,
         time_nanos |-> start_time_ns,
         duration_nanos |-> duration_ns,
         period |-> period,
         period_type |-> [type |-> ids[n - 2], unit |-> ids[n - 1]]]

\* The samples of _build_profile in their order.
SortedSamples(c) == SortedSeq(DOMAIN c.location_values, LocationKeyLess)

\* _PprofConverter._build_profile.
_build_profile(c, start_time_ns, duration_ns, period, sample_types, program_name) ==
    Then(StrAll(c, ProfileTexts(SortedSamples(c), sample_types, program_name)),
         LAMBDA r :
         Ret(r.c, "none",
             ProfileOf(r.c, SortedSamples(c), r.ret, start_time_ns, duration_ns, period,
                       sample_types)))

\* PprofExporter._none_to_str.
_none_to_str(value) == IF value = None THEN <<>> ELSE str(value)

\* PprofExporter._get_thread_name.
_get_thread_name(thread_id, thread_name) ==
    IF thread_name = None THEN Lit("Anonymous Thread ") \o IntStr(thread_id)
    ELSE thread_name

\* A group key that carries every trace_resource.
KeyResource_OfAnyType(event) == _none_to_str(event.trace_resource)

\* The trace_resource of a group key.
KeyResource(event) ==
    IF event.trace_type = Lit("web") THEN _none_to_str(event.trace_resource) ELSE <<>>

\* PprofExporter._stack_event_group_key.
_stack_event_group_key(event) ==
    <<event.thread_id,
      event.thread_native_id,
      _get_thread_name(event.thread_id, event.thread_name),
      _none_to_str(event.task_id),
      _none_to_str(event.task_name),
      _none_to_str(event.trace_id),
      _none_to_str(event.span_id),
      KeyResource(event),
      _none_to_str(event.trace_type),
      event.frames,
      event.nframes>>

\* PprofExporter._lock_event_group_key.
_lock_event_group_key(event) ==
    <<event.lock_name,
      event.thread_id,
      _get_thread_name(event.thread_id, event.thread_name),
      _none_to_str(event.trace_id),
      _none_to_str(event.span_id),
      KeyResource(event),
      _none_to_str(event.trace_type),
      event.frames,
      event.nframes>>

\* Python's order of two group keys whose fields at ints are numbers, whose
\* field at frames is a tuple of frames and whose other fields are texts.
KeyLess(a, b, ints, frames) ==
    \E i \in 1..Len(a) :
        /\ \A j \in 1..(i - 1) : a[j] = b[j]
        /\ a[i] # b[i]
        /\ IF i \in ints THEN a[i] < b[i]
           ELSE IF i = frames THEN FramesLess(a[i], b[i])
           ELSE TextLess(a[i], b[i])

StackKeyLess(a, b) == KeyLess(a, b, {1, 2, 11}, 10)
LockKeyLess(a, b) == KeyLess(a, b, {2, 9}, 8)

\* The key of an event of a kind: "stack", "memalloc" (both grouped by
\* _group_stack_events), "lock-acquire" or "lock-release".
GroupKey(kind, event) ==
    IF kind \in {"stack", "memalloc"} THEN _stack_event_group_key(event)
    ELSE _lock_event_group_key(event)

\* The keys of itertools.groupby(sorted(events, key=...), key=...), in order.
GroupKeys(kind, events) ==
    LET keys == {GroupKey(kind, events[i]) : i \in 1..Len(events)}
    IN  IF kind \in {"stack", "memalloc"} THEN SortedSeq(keys, StackKeyLess)
        ELSE SortedSeq(keys, LockKeyLess)

\* The loop over the groups in export: one convert call a group, the events
\* of a group in the order sorted keeps, until a call raises.
RECURSIVE ConvertGroups(_, _, _, _, _)
ConvertGroups(c, kind, keys, events, sampling_ratio) ==
    IF keys = <<>> THEN Ret(c, "none", None)
    ELSE Then(IF kind = "stack"
              THEN convert_stack_event(c, keys[1],
                       SelectSeq(events, LAMBDA e : GroupKey(kind, e) = keys[1]))
              ELSE IF kind = "memalloc"
              THEN convert_memalloc_event(c, keys[1],
                       SelectSeq(events, LAMBDA e : GroupKey(kind, e) = keys[1]))
              ELSE convert_lock_event(c, kind, keys[1],
                       SelectSeq(events, LAMBDA e : GroupKey(kind, e) = keys[1]),
                       sampling_ratio),
              LAMBDA r : ConvertGroups(r.c, kind, Tail(keys), events, sampling_ratio))

\* The body of the loop over the two lock event classes in export.
ConvertLocks(c, kind, lock_events) ==
    LET sampling_sum_pct == Sum([i \in 1..Len(lock_events) |-> lock_events[i].sampling_pct])
        sampling_ratio_avg == [num |-> sampling_sum_pct, den |-> Len(lock_events) * 100]
    IN  IF lock_events = <<>> THEN Ret(c, "none", None)
        ELSE ConvertGroups(c, kind, GroupKeys(kind, lock_events), lock_events,
                           sampling_ratio_avg)

\* The loop over the heap events in export: one convert call an event, in
\* the order of the events, until a call raises.
RECURSIVE ConvertHeap(_, _)
ConvertHeap(c, heap_events) ==
    IF heap_events = <<>> THEN Ret(c, "none", None)
    ELSE Then(convert_memalloc_heap_event(c, heap_events[1]),
              LAMBDA r : ConvertHeap(r.c, Tail(heap_events)))

\* sample_types of export.
SampleTypes ==
    <<<<Lit("cpu-samples"), Lit("count")>>,
      <<Lit("cpu-time"), Lit("nanoseconds")>>,
      <<Lit("wall-time"), Lit("nanoseconds")>>,
      <<Lit("exception-samples"), Lit("count")>>,
      <<Lit("lock-acquire"), Lit("count")>>,
      <<Lit("lock-acquire-wait"), Lit("nanoseconds")>>,
      <<Lit("lock-release"), Lit("count")>>,
      <<Lit("lock-release-hold"), Lit("nanoseconds")>>,
      <<Lit("alloc-samples"), Lit("count")>>,
      <<Lit("alloc-space"), Lit("bytes")>>,
      <<Lit("heap-space"), Lit("bytes")>>>>

\* config.get_application_name() in the runs of the model.
ProgramName == Lit("python")

\* PprofExporter.export for events that hold stack samples, lock acquires,
\* lock releases, memory allocation samples and heap samples (no exception
\* sample: that loop runs over nothing).  memalloc._memalloc is the extension
\* module that produces the memory events: it is loaded whenever there are
\* such events, and without them the two loops it guards run over nothing.
\* A period of None leaves the field of the message at 0.
export(events, start_time_ns, end_time_ns) ==
    LET stack_events == events.stack
        sum_period == Sum([i \in 1..Len(stack_events) |-> stack_events[i].sampling_period])
        nb_event == Len(stack_events)
        period == IF nb_event # 0 THEN sum_period \div nb_event ELSE 0
    IN  Then(ConvertGroups(NewPprofConverter, "stack", GroupKeys("stack", stack_events),
                           stack_events, [num |-> 1, den |-> 1]), LAMBDA s :
        Then(ConvertLocks(s.c, "lock-acquire", events.acquire), LAMBDA a :
        Then(ConvertLocks(a.c, "lock-release", events.release), LAMBDA r :
        Then(ConvertGroups(r.c, "memalloc", GroupKeys("memalloc", events.memalloc),
                           events.memalloc, [num |-> 1, den |-> 1]), LAMBDA m :
        Then(ConvertHeap(m.c, events.heap), LAMBDA h :
        _build_profile(h.c, start_time_ns, end_time_ns - start_time_ns, period,
                       SampleTypes, ProgramName))))))

-----------------------------------------------------------------------------
(* A converter used on its own: calls of its methods, one after another *)

\* Ids a sequence of the converter hands out at most in a run.
MaxPprofIds == 3

\* The largest nframes of a call.
MaxNframes == 3

F1 == <<T_m, 1, T_n>>
F2 == <<T_m, 2, T_r>>

\* The frames of the stacks.
FrameLists == {<<>>, <<F1>>, <<F1, F2>>}

\* A stack sample event.
StackEvent(trace_type, trace_resource, frames, nframes, cpu_time_ns) ==
    [thread_id |-> 1, thread_native_id |-> 2, thread_name |-> T_w, task_id |-> None,
     task_name |-> None, trace_id |-> <<55>>, span_id |-> None,
     trace_resource |-> trace_resource, trace_type |-> trace_type,
     frames |-> frames, nframes |-> nframes,
     cpu_time_ns |-> cpu_time_ns, wall_time_ns |-> cpu_time_ns + 2,
     sampling_period |-> 10]

\* A lock acquire or release event; time_ns is its wait_time_ns or its
\* locked_for_ns.
LockEvent(trace_type, trace_resource, time_ns) ==
    [lock_name |-> T_k, thread_id |-> 1, thread_name |-> None, trace_id |-> None,
     span_id |-> <<56>>, trace_resource |-> trace_resource, trace_type |-> trace_type,
     frames |-> <<>>, nframes |-> 0, time_ns |-> time_ns, sampling_pct |-> 50]

StackEvents ==
    {StackEvent(tt, tr, fn[1], fn[2], ct) :
        tt \in {Lit("web"), T_q}, tr \in {T_r, T_x},
        fn \in {<<<<>>, 0>>, <<<<F1>>, 2>>}, ct \in {1, 2}}

LockEvents == {LockEvent(tt, tr, 3) : tt \in {Lit("web"), T_q}, tr \in {T_r, T_x}}

\* The samples of one group, as export hands them to convert_stack_event.
StackGroups ==
    LET events == {e \in StackEvents : e.trace_resource = T_r /\ e.cpu_time_ns = 1}
    IN  {<<e>> : e \in events} \cup {<<e, [e EXCEPT !.cpu_time_ns = 2]>> : e \in events}

NewConverterRun ==
    [conv |-> NewPprofConverter, op |-> "none", args |-> <<>>, exc |-> "none",
     ret |-> None, before |-> NewPprofConverter, prev_op |-> "none"]

InitConverter ==
    /\ EncoderInit("converter", {[dialect |-> "v03", max_size |-> MaxSizeV03,
                                  max_item_size |-> MaxSizeV03, inputs |-> {}]})
    /\ tbl = NoTable
    /\ hp = NoHeader
    /\ pt = NoPack
    /\ ex = NoExport
    /\ cv = NewConverterRun

cvv == <<encv, tbl, hp, pt, ex>>
exv == <<encv, tbl, hp, pt, cv>>

\* A sequence of the converter has ids left for a call.
CanCall ==
    cv.conv.last_location_id <= MaxPprofIds /\ cv.conv.last_func_id <= MaxPprofIds

\* cv once the call op(args) of the converter ended as r tells.
Called(op, args, r) ==
    [conv |-> r.c, op |-> op, args |-> args, exc |-> r.exc, ret |-> r.ret,
     before |-> cv.conv, prev_op |-> cv.op]

CvToFunction ==
    /\ CanCall
    /\ \E filename \in {T_m}, funcname \in {T_n, T_r} :
        cv' = Called("_to_Function", <<filename, funcname>>,
                     _to_Function(cv.conv, filename, funcname))
    /\ UNCHANGED cvv

CvToLocation ==
    /\ CanCall
    /\ \E filename \in {T_m}, lineno \in {1}, funcname \in {T_n, None} :
        cv' = Called("_to_Location", <<filename, lineno, funcname>>,
                     _to_Location(cv.conv, filename, lineno, funcname))
    /\ UNCHANGED cvv

CvToLocations ==
    /\ CanCall
    /\ \E frames \in FrameLists, nframes \in 0..MaxNframes :
        cv' = Called("_to_locations", <<frames, nframes>>,
                     _to_locations(cv.conv, frames, nframes))
    /\ UNCHANGED cvv

\* convert_stack_event for one group of samples, as export calls it.
CvConvertStack ==
    /\ CanCall
    /\ \E samples \in StackGroups :
        cv' = Called("convert_stack_event", <<samples>>,
                     convert_stack_event(cv.conv, _stack_event_group_key(samples[1]),
                                         samples))
    /\ UNCHANGED cvv

CvBuildProfile ==
    /\ CanCall
    /\ cv' = Called("_build_profile", <<>>,
                    _build_profile(cv.conv, 1, 2, 10, SampleTypes, ProgramName))
    /\ UNCHANGED cvv

NextConverter ==
    CvToFunction \/ CvToLocation \/ CvToLocations \/ CvConvertStack \/ CvBuildProfile

SpecConverter == InitConverter /\ [][NextConverter]_vars

-----------------------------------------------------------------------------
(* The collectors' frames, handed to the converter *)

\* The longest chain of frames walked.
MaxChain == 3

\* The largest max_nframes of a call.
MaxMaxNframes == 3

\* A Python frame: its code's co_filename and co_name, its line number as
\* PyFrame_GetLineNumber gives it (-1 for a frame without one, whose f_lineno
\* is None), the first of its code's co_varnames (None for a code without
\* variables) and the __name__ of the class that variable refers to.
PyFrames ==
    {[co_filename |-> T_m, co_name |-> T_n, f_lineno |-> ln, argname |-> a, class |-> T_k] :
        ln \in {-1, 1}, a \in {None, Lit("self"), Lit("cls"), T_x}}

\* _extract_class_name.
_extract_class_name(frame) ==
    IF frame.argname = None THEN <<>>
    ELSE IF frame.argname \in {Lit("self"), Lit("cls")} THEN frame.class
    ELSE <<>>

\* The tuple the two functions build for a frame.
FrameTuple(frame) ==
    <<frame.co_filename,
      IF frame.f_lineno <= 0 THEN 0 ELSE frame.f_lineno,
      frame.co_name,
      _extract_class_name(frame)>>

\* traceback_to_frames(traceback, max_nframes); tb is the sequence of the
\* tb_frame of traceback, of its tb_next and so on.  frames.insert(0, ...)
\* puts each frame before the ones taken so far.
RECURSIVE traceback_to_frames(_, _, _, _)
traceback_to_frames(tb, max_nframes, frames, nframes) ==
    IF tb = <<>> THEN <<frames, nframes>>
    ELSE traceback_to_frames(Tail(tb), max_nframes,
                             IF nframes < max_nframes
                             THEN <<FrameTuple(tb[1])>> \o frames ELSE frames,
                             nframes + 1)

\* pyframe_to_frames(frame, max_nframes); chain is the sequence of frame, of
\* its f_back and so on.
RECURSIVE pyframe_to_frames(_, _, _, _)
pyframe_to_frames(chain, max_nframes, frames, nframes) ==
    IF chain = <<>> THEN <<frames, nframes>>
    ELSE pyframe_to_frames(Tail(chain), max_nframes,
                           IF Len(frames) < max_nframes
                           THEN Append(frames, FrameTuple(chain[1])) ELSE frames,
                           nframes + 1)

\* The chains of at most MaxChain frames.
Chains == UNION {[1..n -> PyFrames] : n \in 0..MaxChain}

\* A collector takes the frames of a traceback.
CvTracebackToFrames ==
    /\ cv.op = "none"
    /\ \E tb \in Chains, max_nframes \in 0..MaxMaxNframes :
        cv' = Called("traceback_to_frames", <<tb, max_nframes>>,
                     Ret(cv.conv, "none", traceback_to_frames(tb, max_nframes, <<>>, 0)))
    /\ UNCHANGED cvv

\* A collector takes the frames of a thread's frame.
CvPyframeToFrames ==
    /\ cv.op = "none"
    /\ \E chain \in Chains, max_nframes \in 0..MaxMaxNframes :
        cv' = Called("pyframe_to_frames", <<chain, max_nframes>>,
                     Ret(cv.conv, "none", pyframe_to_frames(chain, max_nframes, <<>>, 0)))
    /\ UNCHANGED cvv

\* The converter is handed the frames and nframes of an event.
CvConsumeFrames ==
    /\ cv.op \in {"traceback_to_frames", "pyframe_to_frames"}
    /\ cv' = Called("_to_locations", cv.ret, _to_locations(cv.conv, cv.ret[1], cv.ret[2]))
    /\ UNCHANGED cvv

NextFrames == CvTracebackToFrames \/ CvPyframeToFrames \/ CvConsumeFrames

SpecFrames == InitConverter /\ [][NextFrames]_vars

-----------------------------------------------------------------------------
(* Calls of export *)

\* The events export is given: up to two stack samples and up to one lock
\* event.
NoEvents == [stack |-> <<>>, acquire |-> <<>>, release |-> <<>>, memalloc |-> <<>>,
             heap |-> <<>>]

ExportEvents ==
    {[stack |-> s, acquire |-> l[1], release |-> l[2], memalloc |-> <<>>, heap |-> <<>>] :
        s \in {<<>>} \cup {<<e>> : e \in StackEvents}
              \cup {<<e1, e2>> : e1 \in StackEvents, e2 \in StackEvents},
        l \in {<<<<>>, <<>>>>} \cup {<<<<e>>, <<>>>> : e \in LockEvents}
              \cup {<<<<>>, <<e>>>> : e \in LockEvents}}

InitExport ==
    /\ EncoderInit("export", {[dialect |-> "v03", max_size |-> MaxSizeV03,
                               max_item_size |-> MaxSizeV03, inputs |-> {}]})
    /\ tbl = NoTable
    /\ hp = NoHeader
    /\ pt = NoPack
    /\ cv = NoConverter
    /\ \E events \in ExportEvents :
        ex = [pc |-> "start", events |-> events, first |-> Ret(NewPprofConverter, "none", NoProfile),
              again |-> NoEvents, second |-> Ret(NewPprofConverter, "none", NoProfile)]

\* export(events, start_time_ns, end_time_ns).
ExExport ==
    /\ ex.pc = "start"
    /\ ex' = [ex EXCEPT !.pc = "done", !.first = export(ex.events, 1, 3)]
    /\ UNCHANGED exv

\* export once more, with the same events or with none.
ExExportAgain ==
    /\ ex.pc = "done"
    /\ \E events \in {ex.events, NoEvents} :
        ex' = [ex EXCEPT !.pc = "again", !.again = events, !.second = export(events, 3, 5)]
    /\ UNCHANGED exv

NextExport == ExExport \/ ExExportAgain

SpecExport == InitExport /\ [][NextExport]_vars

\* A memory allocation sample event: size bytes, one allocation counted,
\* every allocation captured.
MemallocEvent(task_id, trace_id, trace_type, frames, nframes, size) ==
    [thread_id |-> 1, thread_native_id |-> 2, thread_name |-> T_w, task_id |-> task_id,
     task_name |-> None, trace_id |-> trace_id, span_id |-> None,
     trace_resource |-> None, trace_type |-> trace_type,
     frames |-> frames, nframes |-> nframes,
     size |-> size, capture_pct |-> 100, nevents |-> 1]

\* A heap sample event.
HeapEvent(thread_id, frames, nframes, size) ==
    [thread_id |-> thread_id, thread_native_id |-> 2, thread_name |-> T_w,
     frames |-> frames, nframes |-> nframes, size |-> size]

MemallocEvents ==
    {MemallocEvent(tk, ti, None, fn[1], fn[2], sz) :
        tk \in {None, <<57>>}, ti \in {None, <<55>>},
        fn \in {<<<<>>, 0>>, <<<<F1>>, 1>>}, sz \in {4, 6}}
    \cup {MemallocEvent(None, None, T_q, <<>>, 0, 4)}

HeapEvents ==
    {HeapEvent(th_id, fn[1], fn[2], sz) :
        th_id \in {1, 3}, fn \in {<<<<>>, 0>>, <<<<F1>>, 1>>}, sz \in {4, 6}}

\* The events of an export of memory events: up to two allocation samples
\* or up to two heap samples, with or without a stack sample.
MemExportEvents ==
    {[NoEvents EXCEPT !.stack = s, !.memalloc = m, !.heap = h] :
        s \in {<<>>, <<StackEvent(T_q, T_r, <<>>, 0, 1)>>},
        m \in {<<>>} \cup {<<e>> : e \in MemallocEvents}
              \cup {<<e1, e2>> : e1 \in MemallocEvents, e2 \in MemallocEvents},
        h \in {<<>>} \cup {<<e>> : e \in HeapEvents}
              \cup {<<e1, e2>> : e1 \in HeapEvents, e2 \in HeapEvents}}

InitExportMem ==
    /\ EncoderInit("export", {[dialect |-> "v03", max_size |-> MaxSizeV03,
                               max_item_size |-> MaxSizeV03, inputs |-> {}]})
    /\ tbl = NoTable
    /\ hp = NoHeader
    /\ pt = NoPack
    /\ cv = NoConverter
    /\ \E events \in MemExportEvents :
        /\ events.memalloc = <<>> \/ events.heap = <<>>
        /\ ex = [pc |-> "start", events |-> events,
                 first |-> Ret(NewPprofConverter, "none", NoProfile),
                 again |-> NoEvents, second |-> Ret(NewPprofConverter, "none", NoProfile)]

SpecExportMem == InitExportMem /\ [][NextExport]_vars

-----------------------------------------------------------------------------
(* Reference encodings, for the properties *)

\* The bytes _pack_trace writes for a trace when every string of it has the
\* id the index idx gives it.
EncTrace(d, name, idx) ==
    LET tr == TraceOf(name)
    IN  msgpack_pack_array(Len(tr))
        \o Flatten([k \in 1..Len(tr) |->
                      Run(Ctx(idx), pack_span(d, tr[k], TraceOrigin(tr))).out])

\* The array of the traces named by acc, in that order.
TracesArray(d, acc, idx) ==
    msgpack_pack_array(Len(acc)) \o Flatten([k \in 1..Len(acc) |-> EncTrace(d, acc[k], idx)])

\* The payload bytes of the encoder: from the reserved prefix to the cursor.
Body == Slice(buf, ReservedPrefix, length - ReservedPrefix)

\* The string table's bytes: from its reserved prefix to its cursor.
StBody == Slice(st_buf, StReservedPrefix, st_length - StReservedPrefix)

PutFailed == last.op = "put" /\ last.exc # "none"
EncodeReturned == last.op = "encode" /\ last.exc = "none" /\ last.out # None

\* The strings of a span that _pack_string is called with (None excluded).
SpanStrings(span, origin) ==
    ({span.service, span.name, span.resource, span.span_type}
     \cup {span.meta[k][1] : k \in 1..Len(span.meta)}
     \cup {span.meta[k][2] : k \in 1..Len(span.meta)}
     \cup {span.metrics[k][1] : k \in 1..Len(span.metrics)}
     \cup (IF origin # None THEN {ORIGIN_KEY, origin} ELSE {})) \ {None}

TraceStrings(name) ==
    LET tr == TraceOf(name)
    IN  UNION {SpanStrings(tr[k], TraceOrigin(tr)) : k \in 1..Len(tr)}

\* The number of consecutive msgpack strings in bytes from offset pos on.
RECURSIVE StrCount(_, _)
StrCount(bytes, pos) ==
    IF pos < Len(bytes) /\ bytes[pos + 1] >= 160 /\ bytes[pos + 1] < 192
    THEN 1 + StrCount(bytes, pos + 1 + (bytes[pos + 1] - 160))
    ELSE 0

\* The k-th (from 0) of the msgpack strings in bytes from offset pos on.
RECURSIVE StrAt(_, _, _)
StrAt(bytes, pos, k) ==
    IF k = 0 THEN Slice(bytes, pos + 1, bytes[pos + 1] - 160)
    ELSE StrAt(bytes, pos + 1 + (bytes[pos + 1] - 160), k - 1)

\* The length a msgpack array header at offset pos declares, and its width.
ArrayLenAt(bytes, pos) ==
    IF bytes[pos + 1] >= 144 /\ bytes[pos + 1] < 160 THEN bytes[pos + 1] - 144
    ELSE IF bytes[pos + 1] = 220 THEN bytes[pos + 2] * 256 + bytes[pos + 3]
    ELSE -1

ArrayHeaderWidth(bytes, pos) == IF bytes[pos + 1] = 220 THEN 3 ELSE 1

-----------------------------------------------------------------------------
(* C1 .. C10 *)

\* C1: for the base/V03 encoder a put that raises (pack error,
\* BufferItemTooLarge, BufferFull) leaves the cursor, size(), len() and the
\* bytes below the cursor as they were at entry, and an encode() that follows
\* failed puts returns the accepted traces only.
C1_FailedPutV03 ==
    /\ (dialect = "v03" /\ PutFailed) =>
          /\ length = last.entry.length
          /\ Size = last.entry.size
          /\ count = last.entry.count
          /\ Body = last.entry.body
    /\ (dialect = "v03" /\ EncodeReturned /\ last.entry.failed) =>
          last.out = TracesArray("v03", last.entry.accepted, <<>>)

\* An encode() returns traces after a put failed on a non-empty V03 buffer.
C1_Witness ==
    /\ dialect = "v03"
    /\ EncodeReturned
    /\ last.entry.failed
    /\ "one" \in {last.entry.accepted[k] : k \in 1..Len(last.entry.accepted)}

\* C2 (as claimed): a V05 put that raises leaves payload cursor, item count,
\* string-table cursor, number of interned strings and size() as at entry.
C2_FailedPutV05 ==
    (dialect = "v05" /\ PutFailed) =>
        /\ length = last.entry.length
        /\ count = last.entry.count
        /\ st_length = last.entry.st_length
        /\ Len(st_index) = Len(last.entry.st_index)
        /\ Size = last.entry.size

\* C3 (as claimed): in every V05 payload the string table's array header
\* equals the number of strings serialised after it, and every string id of
\* the accepted traces is below that number.
C3_StringIdsValid ==
    (dialect = "v05" /\ EncodeReturned) =>
        LET out == last.out
            w == ArrayHeaderWidth(out, 1)
            n == StrCount(out, 1 + w)
            acc == last.entry.accepted
            ids == {0} \cup {IdOf(last.entry.st_index, s) :
                               s \in UNION {TraceStrings(acc[k]) : k \in 1..Len(acc)}}
        IN  /\ ArrayLenAt(out, 1) = n
            /\ \A id \in ids : id < n

AllIdle == \A t \in Threads : th[t].pc = "idle"

\* The orders in which the traces named by acc can lie in a buffer.
Perms(acc) ==
    LET n == Len(acc)
    IN  {[k \in 1..n |-> acc[f[k]]] :
            f \in {g \in [1..n -> 1..n] : \A a, b \in 1..n : g[a] = g[b] => a = b}}

\* The bytes of the traces named by p, one after the other.
TraceBytes(p) == Flatten([k \in 1..Len(p) |-> EncTrace(dialect, p[k], st_index)])

\* C5 (as claimed): when the producers' concurrent puts have returned and no
\* encode has run, the buffer holds exactly the bytes of the traces whose put
\* succeeded, in some order, and len() is their number.
C5_ConcurrentPutsAtomic ==
    (mode = "conc" /\ AllIdle /\ th["c"].calls = 0) =>
        /\ count = Len(hist.acc)
        /\ \E p \in Perms(hist.acc) : Body = TraceBytes(p)

\* The outputs outs hold the traces p from the front on, each output under a
\* header of the number of traces in it, and the buffer holds the rest.
RECURSIVE Delivered(_, _)
Delivered(outs, p) ==
    IF outs = <<>>
    THEN count = Len(p) /\ Body = TraceBytes(p)
    ELSE \E k \in 1..Len(p) :
            /\ Head(outs) = TracesArray(dialect, SubSeq(p, 1, k), st_index)
            /\ Delivered(Tail(outs), SubSeq(p, k + 1, Len(p)))

\* C6 (as claimed): with producers and a consumer running concurrently on a
\* V03 encoder, once the calls have returned, every put having succeeded and
\* an encode having produced output, every accepted trace is in exactly one
\* output or still in the buffer, and every output's header equals the
\* number of traces in it.
C6_NoTraceLostOrDuplicated ==
    (mode = "conc" /\ dialect = "v03" /\ AllIdle /\ hist.outs # <<>>
         /\ th["p1"].calls + th["p2"].calls = Len(hist.acc)) =>
        \E p \in Perms(hist.acc) : Delivered(hist.outs, p)

\* C7 (as claimed): every step that moves the payload cursor or changes the
\* item counter is taken by the thread that holds the encoder's lock.
C7_CursorUnderLock ==
    [][\A t \in Threads :
          (th'[t] # th[t] /\ (length' # length \/ count' # count)) => lock = t]_vars

\* C8 (as claimed): while get_bytes of the string table has the cursor
\* rewound no other call writes the table's buffer or moves its cursor, and
\* the cursor get_bytes restores is the cursor it rewound.
C8_StringTableSerialised ==
    [][\A t \in Threads :
          th[t].pc = "st_gb_restore" =>
              IF th'[t].pc = "st_gb_restore"
              THEN st_buf' = st_buf /\ st_length' = st_length
              ELSE th[t].old_pos = th[t].cur]_vars

\* C9 (as claimed): between calls size() is at most max_size.
C9_SizeWithinMax == AllIdle => Size <= max_size

\* C10 (as claimed): between calls reserved_prefix <= length <= max_size.
C10_CursorWithinCapacity ==
    AllIdle => (ReservedPrefix <= length /\ length <= max_size)

\* C10 (amended): between the calls of a single caller the cursor is at
\* least the reserved prefix and at most max_size + reserved_prefix - 1.
C10_CursorWithinBound ==
    (mode = "seq" /\ AllIdle) => (ReservedPrefix <= length /\ length <= max_size + ReservedPrefix - 1)

\* Accepted bytes extend past max_size.
C10_Witness == AllIdle /\ count > 0 /\ length > max_size

-----------------------------------------------------------------------------
-----------------------------------------------------------------------------
\* The packing context after the spans of the trace were packed in turn,
\* starting from the string index idx.
PackSpans(d, name, idx) ==
    Run(Ctx(idx),
        Flatten([k \in 1..Len(TraceOf(name)) |->
                    pack_span(d, TraceOf(name)[k], TraceOrigin(TraceOf(name)))]))

\* What packing the trace adds to size() on an encoder whose string table
\* has the index idx: the trace's array header, the payload bytes, and for
\* V05 the bytes of the strings it interns and the growth of the table's
\* header.
Contribution(d, name, idx) ==
    Len(msgpack_pack_array(Len(TraceOf(name)))) + Len(PackSpans(d, name, idx).out)
    + (IF d = "v05"
       THEN Len(PackSpans(d, name, idx).sout)
            + array_prefix_size(Len(PackSpans(d, name, idx).idx))
            - array_prefix_size(Len(idx))
       ELSE 0)

\* The trace packs without error.
Packs(d, name, idx) == PackSpans(d, name, idx).ok

\* C12: a put whose trace adds more than max_item_size to size() raises
\* BufferItemTooLarge with that amount as argument; a put whose trace adds at
\* most max_item_size, exactly max_item_size included, succeeds when size()
\* stays within max_size.
C12_ItemSizeBoundary ==
    (last.op = "put" /\ Packs(dialect, last.trace, last.entry.st_index)) =>
        LET d == Contribution(dialect, last.trace, last.entry.st_index)
        IN  /\ d > max_item_size =>
                (last.exc = "BufferItemTooLarge" /\ last.arg = d)
            /\ (d <= max_item_size /\ last.entry.size + d <= max_size) =>
                last.exc = "none"

\* A trace that adds exactly max_item_size was accepted.
C12_Witness ==
    /\ last.op = "put" /\ last.exc = "none" /\ last.trace = "one"
    /\ Contribution(dialect, "one", last.entry.st_index) = max_item_size

-----------------------------------------------------------------------------
\* size() as it is after the put of a trace that adds d to an encoder that
\* had size() = size and len() = n.
SizeAfterPut(size, n, d) == size + d + array_prefix_size(n + 1) - array_prefix_size(n)

\* size() as it would be after the put that returned last, had it succeeded.
SizeIfAccepted ==
    SizeAfterPut(last.entry.size, last.entry.count,
                 Contribution(dialect, last.trace, last.entry.st_index))

\* C13 (as claimed): a put of an item within max_item_size that brings size()
\* to exactly max_size succeeds; one that would bring size() to max_size + 1
\* raises BufferFull and leaves the cursor and len() as they were.
C13_FillToMaxSize ==
    (last.op = "put" /\ Packs(dialect, last.trace, last.entry.st_index)
        /\ Contribution(dialect, last.trace, last.entry.st_index) <= max_item_size) =>
        /\ SizeIfAccepted = max_size => last.exc = "none"
        /\ SizeIfAccepted = max_size + 1 =>
              /\ last.exc = "BufferFull"
              /\ length = last.entry.length /\ count = last.entry.count

-----------------------------------------------------------------------------
\* C14 (as claimed): when put(trace) raised BufferFull and encode() was
\* called next, the put(trace) that follows succeeds.
C14_BufferFullTransient ==
    (last.op = "put" /\ last.entry.retry = last.trace) => last.exc = "none"

-----------------------------------------------------------------------------
\* put(trace) raises BufferItemTooLarge on the encoder as constructed.
TooLargeWhenFresh(name) == Contribution(dialect, name, << <<>> >>) > max_item_size

\* C15 (as claimed): a put raises BufferItemTooLarge in a state of the
\* encoder exactly when the put of the same trace raises it on the encoder
\* as constructed.
C15_ItemTooLargePermanent ==
    (last.op = "put" /\ Packs(dialect, last.trace, last.entry.st_index)) =>
        (last.exc = "BufferItemTooLarge" <=> TooLargeWhenFresh(last.trace))

-----------------------------------------------------------------------------
\* C16 (as claimed): an encode called with at least one trace accepted does
\* not raise, and returns a payload.
C16_EncodeNeverRaises ==
    (last.op = "encode" /\ last.entry.count > 0) =>
        (last.exc = "none" /\ last.out # None)

-----------------------------------------------------------------------------
\* C17: in the list and the msgpack string table, index("") and index(None)
\* return 0 whenever they are called: on the table as built, after any
\* calls of index, after reset().
C17_EmptyAndNilAreZero ==
    (tbl.last.op = "index" /\ tbl.last.arg \in {<<>>, None}) =>
        (tbl.last.exc = "none" /\ tbl.last.ret = 0)

-----------------------------------------------------------------------------
\* The ids of the table are 0 .. len - 1, each used once.
TblIdsDense ==
    /\ {tbl.index[s] : s \in DOMAIN tbl.index} = 0..(TblLen(tbl) - 1)
    /\ \A s1, s2 \in DOMAIN tbl.index : tbl.index[s1] = tbl.index[s2] => s1 = s2

\* C18: between two resets index(s) returns the id it returned first for s,
\* a new string gets the id len(table), the ids are 0 .. len - 1 without
\* gaps, and the i-th string the list table yields has the id i.
C18_IdsStableDenseOrdered ==
    /\ (tbl.last.op = "index" /\ tbl.last.arg # None) =>
          /\ tbl.last.exc = "none"
          /\ tbl.last.known => tbl.last.ret = tbl.last.first
          /\ tbl.last.new => tbl.last.ret = tbl.last.len
    /\ tbl.variant # "none" => TblIdsDense
    /\ tbl.variant = "list" =>
          /\ Len(tbl.list) = TblLen(tbl)
          /\ \A i \in 1..Len(tbl.list) :
                /\ tbl.list[i] \in DOMAIN tbl.index
                /\ tbl.index[tbl.list[i]] = i - 1

-----------------------------------------------------------------------------
\* C19: array_prefix_size(n) is 1 for n < 16, 3 for 16 <= n < 2^16 and 5 from
\* 2^16 on, which is the width of the msgpack array header of n items, so
\* the header patched at reserved prefix - array_prefix_size(n) ends where
\* the body starts.
C19_PrefixSizeIsHeaderWidth ==
    hp.pc \in {"restore", "bytes", "done"} =>
        /\ array_prefix_size(hp.n) = (IF hp.n < 16 THEN 1 ELSE IF hp.n < 65536 THEN 3 ELSE 5)
        /\ array_prefix_size(hp.n) = Len(msgpack_pack_array(hp.n))
        /\ hp.end = hp.reserved

-----------------------------------------------------------------------------
\* The payload get_bytes returned for an encoder.
PayloadReturned == hp.kind = "encoder" /\ hp.pc = "done"

\* C20 as stated: every payload encode() returns for V03 starts with a
\* 5-byte array32 header, whatever the number of traces.
C20_PrefixAlwaysArray32 ==
    PayloadReturned =>
        /\ Len(hp.out) >= 5
        /\ SubSeq(hp.out, 1, 5) = <<221>> \o BE(hp.n, 4)

\* C20: every payload encode() returns for V03 starts with the msgpack array
\* header of the number of traces in its shortest form: 1 byte (fixarray)
\* below 16 traces, 3 bytes (array16) below 2^16, 5 bytes (array32) from
\* 2^16 on.
C20_PrefixShortestArrayHeader ==
    PayloadReturned =>
        /\ SubSeq(hp.out, 1, Len(msgpack_pack_array(hp.n))) = msgpack_pack_array(hp.n)
        /\ hp.n < 16 => hp.out[1] = 144 + hp.n
        /\ (16 <= hp.n /\ hp.n < 65536) => SubSeq(hp.out, 1, 3) = <<220>> \o BE(hp.n, 2)
        /\ hp.n >= 65536 => SubSeq(hp.out, 1, 5) = <<221>> \o BE(hp.n, 4)

C20_Witness == PayloadReturned /\ hp.n < 16 /\ Len(hp.out) = 1 + HeadBody

-----------------------------------------------------------------------------
(* Reading msgpack back, for the properties of the packed spans *)

\* The offset after the msgpack object at offset pos of b, -1 when the bytes
\* from pos on are not an object; ObjsEnd: after n objects in a row.
RECURSIVE ObjEnd(_, _), ObjsEnd(_, _, _)
ObjEnd(b, pos) ==
    IF pos < 0 \/ pos >= Len(b) THEN -1
    ELSE LET t == b[pos + 1]
             e == IF t < 128 \/ t >= 224 \/ t = 192 THEN pos + 1
                  ELSE IF t < 144 THEN ObjsEnd(b, pos + 1, 2 * (t - 128))
                  ELSE IF t < 160 THEN ObjsEnd(b, pos + 1, t - 144)
                  ELSE IF t < 192 THEN pos + 1 + (t - 160)
                  ELSE IF t \in {204, 208} THEN pos + 2
                  ELSE IF t \in {205, 209} THEN pos + 3
                  ELSE IF t \in {206, 210} THEN pos + 5
                  ELSE IF t \in {207, 211} THEN pos + 9
                  ELSE -1
         IN  IF e > Len(b) THEN -1 ELSE e

ObjsEnd(b, pos, n) ==
    IF n = 0 \/ pos < 0 THEN pos ELSE ObjsEnd(b, ObjEnd(b, pos), n - 1)

\* The bytes of the j-th object (from 1) of those that follow offset pos.
ObjAt(b, pos, j) ==
    LET from == ObjsEnd(b, pos, j - 1)
        to == ObjsEnd(b, pos, j)
    IN  IF from < 0 \/ to < 0 THEN <<>> ELSE Slice(b, from, to - from)

\* The keys V03 writes for a span, in the order of the claim.
V03Keys(span, origin) ==
    <<K_trace_id, K_parent_id, K_span_id, K_service, K_resource, K_name, K_error,
      K_start, K_duration>>
    \o (IF span.span_type # None THEN <<K_type>> ELSE <<>>)
    \o (IF Len(span.meta) > 0 \/ origin # None THEN <<K_meta>> ELSE <<>>)
    \o (IF Len(span.metrics) > 0 THEN <<K_metrics>> ELSE <<>>)

\* The bytes b are a map of the keys ks, in that order, and nothing else.
IsMapOfKeys(b, ks) ==
    /\ Len(b) > 0
    /\ b[1] = 128 + Len(ks)
    /\ ObjsEnd(b, 1, 2 * Len(ks)) = Len(b)
    /\ \A j \in 1..Len(ks) : ObjAt(b, 1, 2 * j - 1) = pack_bytes(ks[j]).bytes

\* C21: the map V03 pack_span writes for a span declares 9 + has_span_type +
\* has_meta + has_metrics pairs and holds exactly that many, with the keys
\* trace_id, parent_id, span_id, service, resource, name, error, start,
\* duration, then type, meta and metrics when present; error is the integer
\* 0 or 1.
C21_V03SpanMap ==
    pt.dialect = "v03" =>
        \A i \in 1..Len(pt.spans) :
            LET ks == V03Keys(pt.trace[i], TraceOrigin(pt.trace))
            IN  /\ Len(ks) = 9 + (IF pt.trace[i].span_type # None THEN 1 ELSE 0)
                             + (IF Len(pt.trace[i].meta) > 0 \/ TraceOrigin(pt.trace) # None
                                THEN 1 ELSE 0)
                             + (IF Len(pt.trace[i].metrics) > 0 THEN 1 ELSE 0)
                /\ IsMapOfKeys(pt.spans[i], ks)
                /\ ObjAt(pt.spans[i], 1, 14) = <<IF pt.trace[i].error THEN 1 ELSE 0>>

C21_Witness ==
    /\ pt.dialect = "v03" /\ pt.pc = "done" /\ Len(pt.spans) = 1
    /\ pt.spans[1][1] = 128 + 12
    /\ pt.trace[1].error

-----------------------------------------------------------------------------
\* The origin the first span's context holds, None without a context.
FirstOrigin == IF pt.trace[1].context.present THEN pt.trace[1].context.dd_origin ELSE None

\* The bytes of the value V03 wrote under the key meta for the i-th span,
\* <<>> when the span's map has no such key.
MetaOf(i) ==
    LET b == pt.spans[i]
        j == 10 + (IF pt.trace[i].span_type # None THEN 1 ELSE 0)
    IN  IF b[1] - 128 >= j /\ ObjAt(b, 1, 2 * j - 1) = pack_bytes(K_meta).bytes
        THEN ObjAt(b, 1, 2 * j) ELSE <<>>

\* C22: V03 takes the origin of a trace from the first span's context only.
\* When it is not nil every span gets a meta map that declares
\* len(span.meta) + 1 entries, the last being "_dd.origin" -> origin; when it
\* is nil no span gets that key, whatever the contexts of the other spans.
C22_V03OriginFromFirstSpan ==
    pt.dialect = "v03" =>
        \A i \in 1..Len(pt.spans) :
            LET m == MetaOf(i)
                n == Len(pt.trace[i].meta)
            IN  IF FirstOrigin # None
                THEN /\ m # <<>>
                     /\ m[1] = 128 + n + 1
                     /\ ObjsEnd(m, 1, 2 * (n + 1)) = Len(m)
                     /\ ObjAt(m, 1, 2 * n + 1) = pack_text(ORIGIN_KEY).bytes
                     /\ ObjAt(m, 1, 2 * n + 2) = pack_text(FirstOrigin).bytes
                ELSE /\ (n = 0) = (m = <<>>)
                     /\ m # <<>> =>
                           /\ m[1] = 128 + n
                           /\ \A j \in 1..n : ObjAt(m, 1, 2 * j - 1) # pack_text(ORIGIN_KEY).bytes

\* Two spans, the first with an origin, the second with neither tags nor
\* context: both got the origin.
C22_Witness ==
    /\ pt.dialect = "v03" /\ pt.pc = "done" /\ Len(pt.spans) = 2
    /\ FirstOrigin = T_x
    /\ ~pt.trace[2].context.present /\ pt.trace[2].meta = <<>>
    /\ MetaOf(2) = msgpack_pack_map(1) \o pack_text(ORIGIN_KEY).bytes \o pack_text(T_x).bytes

\* The first span has no origin, the second span's context has one: no span
\* got the key.
C22_WitnessNil ==
    /\ pt.dialect = "v03" /\ pt.pc = "done" /\ Len(pt.spans) = 2
    /\ FirstOrigin = None /\ pt.trace[2].context.dd_origin = T_x
    /\ MetaOf(1) = <<>> /\ MetaOf(2) = <<>>

-----------------------------------------------------------------------------
\* The id of the string x in the string table as the call left it, written
\* as V05 writes an id; nil is id 0.  <<>> when the table does not hold x.
IdBytes(x) ==
    IF x = None THEN <<0>>
    ELSE IF InIndex(pt.idx, x) THEN msgpack_pack_unsigned_long_long(IdOf(pt.idx, x))
    ELSE <<>>

\* The map of string ids V05 is to write for the tags of a span.
MetaIds(span, origin) ==
    msgpack_pack_map(Len(span.meta) + (IF origin # None THEN 1 ELSE 0))
    \o Flatten([k \in 1..Len(span.meta) |->
                    IdBytes(span.meta[k][1]) \o IdBytes(span.meta[k][2])])
    \o (IF origin # None THEN IdBytes(ORIGIN_KEY) \o IdBytes(origin) ELSE <<>>)

\* The map from string ids to numbers V05 is to write for the metrics.
MetricsIds(span) ==
    msgpack_pack_map(Len(span.metrics))
    \o Flatten([k \in 1..Len(span.metrics) |->
                    IdBytes(span.metrics[k][1]) \o pack_number(span.metrics[k][2]).bytes])

\* C23: V05 pack_span writes an array of exactly 12 fields: service, name,
\* resource, trace_id, span_id, parent_id, start, duration, error, meta,
\* metrics, span_type, every string as its id in the string table and nil
\* as id 0; on a fresh encoder the span with service "s", name "n" and
\* resource "r" gives the table "", "s", "n", "r" and the ids 1, 2, 3.
C23_V05SpanArray ==
    pt.dialect = "v05" =>
        /\ pt.pc # "raised"
        /\ \A i \in 1..Len(pt.spans) :
              LET b == pt.spans[i]
                  span == pt.trace[i]
              IN  /\ b[1] = 144 + 12
                  /\ ObjsEnd(b, 1, 12) = Len(b)
                  /\ ObjAt(b, 1, 1) = IdBytes(span.service)
                  /\ ObjAt(b, 1, 2) = IdBytes(span.name)
                  /\ ObjAt(b, 1, 3) = IdBytes(span.resource)
                  /\ ObjAt(b, 1, 4) = msgpack_pack_unsigned_long_long(span.trace_id.v)
                  /\ ObjAt(b, 1, 5) = msgpack_pack_unsigned_long_long(span.span_id.v)
                  /\ ObjAt(b, 1, 6) = msgpack_pack_unsigned_long_long(span.parent_id.v)
                  /\ ObjAt(b, 1, 7) = msgpack_pack_long_long(span.start_ns.v)
                  /\ ObjAt(b, 1, 8) = msgpack_pack_long_long(span.duration_ns.v)
                  /\ ObjAt(b, 1, 9) = <<IF span.error THEN 1 ELSE 0>>
                  /\ ObjAt(b, 1, 10) = MetaIds(span, FirstOrigin)
                  /\ ObjAt(b, 1, 11) = MetricsIds(span)
                  /\ ObjAt(b, 1, 12) = IdBytes(span.span_type)
        /\ (Len(pt.spans) = 1 /\ pt.trace[1] = Span1) =>
              /\ pt.idx = <<<<>>, T_s, T_n, T_r>>
              /\ SubSeq(pt.spans[1], 2, 4) = <<1, 2, 3>>

-----------------------------------------------------------------------------
(* C24 .. C30: the pprof converter and exporter *)

\* The ids of the items of a sequence.
IdsOf(items) == {items[i].id : i \in 1..Len(items)}

\* Every id a profile refers to is defined in it.
ProfileIdsValid(p) ==
    LET n == Len(p.string_table)
    IN  /\ \A i \in 1..Len(p.sample) :
            /\ \A j \in 1..Len(p.sample[i].location_id) :
                  p.sample[i].location_id[j] \in IdsOf(p.location)
            /\ \A j \in 1..Len(p.sample[i].label) :
                  p.sample[i].label[j].key < n /\ p.sample[i].label[j].str < n
        /\ \A i \in 1..Len(p.location) : \A j \in 1..Len(p.location[i].line) :
              p.location[i].line[j].function_id \in IdsOf(p.function)
        /\ \A i \in 1..Len(p.function) :
              p.function[i].name < n /\ p.function[i].filename < n
        /\ \A i \in 1..Len(p.sample_type) :
              p.sample_type[i].type < n /\ p.sample_type[i].unit < n
        /\ p.period_type.type < n /\ p.period_type.unit < n
        /\ \A i \in 1..Len(p.mapping) : p.mapping[i].filename < n

\* C24: every export yields a profile, and in it every location id of a
\* sample is in the location list, every function id of a location is in the
\* function list and every string id of a function, a label, a sample type,
\* the period type or the mapping is below the length of string_table.
C24_ExportIdsValid ==
    ex.pc = "done" => ex.first.exc = "none" /\ ProfileIdsValid(ex.first.ret)

\* The key of the synthetic location for K omitted frames:
\* ("", 0, "<K frame(s) omitted>"), "frames" when K > 1.
OmittedKey(K) ==
    <<<<>>, 0,
      Lit("<") \o IntStr(K) \o Lit(" frame") \o (IF K > 1 THEN T_s ELSE <<>>)
      \o Lit(" omitted>")>>

\* C25: _to_locations(frames, nframes) returns one location id a frame and,
\* exactly when nframes > len(frames), one more: the id of the location
\* ("", 0, "<K frame(s) omitted>") with K = nframes - len(frames).
C25_OmittedLocation ==
    cv.op = "_to_locations" =>
        LET frames == cv.args[1]
            nframes == cv.args[2]
            K == nframes - Len(frames)
        IN  /\ cv.exc = "none"
            /\ Len(cv.ret) = Len(frames) + (IF K > 0 THEN 1 ELSE 0)
            /\ K > 0 =>
                  /\ OmittedKey(K) \in DOMAIN cv.conv.locations
                  /\ cv.conv.locations[OmittedKey(K)].id = cv.ret[Len(cv.ret)]

\* The stack events of a bag that fold with the event e: those with its
\* frames, its nframes and its label fields.
FoldOf(events, e) ==
    SelectSeq(events, LAMBDA x : _stack_event_group_key(x) = _stack_event_group_key(e))

\* The values of a sample for the sample types cpu-samples, cpu-time and
\* wall-time, the first three of export.
CpuValues(sample) == SubSeq(sample.value, 1, 3)

\* C26: export yields a profile with one sample for each group of stack
\* events that share frames, nframes and label fields; its cpu-samples is the
\* number of events of the group, its cpu-time and wall-time are their sums,
\* and the cpu-samples of all samples add up to the number of stack events.
C26_StackEventsFold ==
    ex.pc = "done" =>
        LET events == ex.events.stack
            p == ex.first.ret
            groups == {FoldOf(events, events[i]) : i \in 1..Len(events)}
            cpu == {i \in 1..Len(p.sample) : p.sample[i].value[1] > 0}
        IN  /\ ex.first.exc = "none"
            /\ Cardinality(cpu) = Cardinality(groups)
            /\ \A g \in groups : \E i \in cpu :
                  CpuValues(p.sample[i]) =
                      <<Len(g), Sum([j \in 1..Len(g) |-> g[j].cpu_time_ns]),
                        Sum([j \in 1..Len(g) |-> g[j].wall_time_ns])>>
            /\ Sum([i \in 1..Len(p.sample) |-> p.sample[i].value[1]]) = Len(events)

\* The event e with another trace_resource, unless it is a web event.
WithResource(e, trace_resource) ==
    IF e.trace_type = Lit("web") THEN e ELSE [e EXCEPT !.trace_resource = trace_resource]

\* The event sequences that differ from events only in the trace_resource of
\* events that are not web events.
ResourceVariants(events) ==
    {[i \in 1..Len(events) |-> WithResource(events[i], f[i])] :
        f \in [1..Len(events) -> {None, T_r, T_x}]}

BagVariants(events) ==
    {[stack |-> s, acquire |-> a, release |-> r, memalloc |-> events.memalloc,
      heap |-> events.heap] :
        s \in ResourceVariants(events.stack),
        a \in ResourceVariants(events.acquire),
        r \in ResourceVariants(events.release)}

\* The value of the label name among labels, None without such a label.
LabelOf(labels, name) ==
    IF \E j \in 1..Len(labels) : labels[j][1] = name
    THEN labels[CHOOSE j \in 1..Len(labels) : labels[j][1] = name][2]
    ELSE None

\* The labels of sample i of the profile p, as texts.
SampleLabels(p, i) ==
    [j \in 1..Len(p.sample[i].label) |->
        <<p.string_table[p.sample[i].label[j].key + 1],
          p.string_table[p.sample[i].label[j].str + 1]>>]

\* Labels of an event that is not a web event hide its trace_resource.
EndpointHidden(labels) ==
    LabelOf(labels, Lit("trace type")) # Lit("web")
        => LabelOf(labels, Lit("trace endpoint")) \in {None, <<>>}

DenseIds(d, next_id) ==
    /\ {d[k].id : k \in DOMAIN d} = 1..Cardinality(DOMAIN d)
    /\ next_id = Cardinality(DOMAIN d) + 1

\* C28: function ids and location ids start at 1 and go up by 1 for each new
\* key (filename, funcname) or (filename, lineno, funcname); a lookup
\* returns the entry of its key, for a known key the id it had, taking no new
\* id; a location without funcname refers to "<unknown function>".
C28_IdsDenseAndStable ==
    cv.op # "off" =>
        /\ DenseIds(cv.conv.functions, cv.conv.last_func_id)
        /\ DenseIds(cv.conv.locations, cv.conv.last_location_id)
        /\ cv.op = "_to_Function" =>
              /\ cv.exc = "none"
              /\ cv.args \in DOMAIN cv.conv.functions
              /\ cv.ret = cv.conv.functions[cv.args]
              /\ cv.args \in DOMAIN cv.before.functions =>
                    /\ cv.ret.id = cv.before.functions[cv.args].id
                    /\ cv.conv.last_func_id = cv.before.last_func_id
        /\ cv.op = "_to_Location" =>
              /\ cv.exc = "none"
              /\ cv.args \in DOMAIN cv.conv.locations
              /\ cv.ret = cv.conv.locations[cv.args]
              /\ cv.args \in DOMAIN cv.before.locations =>
                    /\ cv.ret.id = cv.before.locations[cv.args].id
                    /\ cv.conv.last_location_id = cv.before.last_location_id
              /\ cv.args[3] = None =>
                    /\ <<cv.args[1], Lit("<unknown function>")>> \in DOMAIN cv.conv.functions
                    /\ cv.ret.line[1].function_id =
                         cv.conv.functions[<<cv.args[1], Lit("<unknown function>")>>].id

\* a <= b in the lexicographic order of tuples of ids.
IdsLeq(a, b) ==
    \/ a = b
    \/ \E i \in 1..(Len(a) + 1) :
          /\ i <= Len(b)
          /\ \A j \in 1..(i - 1) : a[j] = b[j]
          /\ (i > Len(a) \/ a[i] < b[i])

\* The lists of a profile are in their canonical order.
ProfileSorted(p) ==
    /\ \A i \in 1..(Len(p.location) - 1) : p.location[i].id < p.location[i + 1].id
    /\ \A i \in 1..(Len(p.function) - 1) : p.function[i].id < p.function[i + 1].id
    /\ \A i \in 1..(Len(p.sample) - 1) :
          IdsLeq(p.sample[i].location_id, p.sample[i + 1].location_id)

\* C29: _build_profile yields a profile whose location list and function
\* list go up strictly by id and whose sample list goes up, not strictly, in
\* the lexicographic order of the tuples of location ids.
C29_ProfileSorted ==
    cv.op = "_build_profile" => cv.exc = "none" /\ ProfileSorted(cv.ret)

\* C30: a second export in a row, given no event since the first, yields an
\* empty profile: no sample, no location, no function.
C30_SecondProfileEmpty ==
    ex.pc = "again" /\ ex.again = NoEvents =>
        /\ ex.second.exc = "none"
        /\ ex.second.ret.sample = <<>>
        /\ ex.second.ret.location = <<>>
        /\ ex.second.ret.function = <<>>

-----------------------------------------------------------------------------
(* C31 .. C40 *)

\* The string the id of s (in the index the encode found) resolves to in the
\* string table of the V05 payload out; None when the table is shorter.
Resolved(out, idx, s) ==
    LET w == ArrayHeaderWidth(out, 1)
    IN  IF IdOf(idx, s) < StrCount(out, 1 + w) THEN StrAt(out, 1 + w, IdOf(idx, s))
        ELSE None

\* C31 (as claimed): when a V05 put failed and was rolled back, and a later
\* put that uses a string the failed put was first to intern succeeded with no
\* flush in between, the payload of the next encode holds a string table in
\* which the id of that string resolves to that string.
C31_RolledBackStringsResolve ==
    (dialect = "v05" /\ EncodeReturned) =>
        \A k \in 1..Len(last.entry.accepted) :
            \A s \in TraceStrings(last.entry.accepted[k]) \cap last.entry.rolled :
                Resolved(last.out, last.entry.st_index, s) = s

\* A freshly constructed V05 encoder after the puts of the traces acc[1..k]:
\* the string table's index and bytes and the payload's bytes.
RECURSIVE FreshAfter(_, _)
FreshAfter(acc, k) ==
    IF k = 0 THEN [idx |-> << <<>> >>, sout |-> pack_text(<<>>).bytes, body |-> <<>>]
    ELSE LET f == FreshAfter(acc, k - 1)
             c == PackSpans("v05", acc[k], f.idx)
         IN  [idx |-> c.idx, sout |-> f.sout \o c.sout,
              body |-> f.body \o msgpack_pack_array(Len(TraceOf(acc[k]))) \o c.out]

\* What encode() returns on a freshly constructed V05 encoder after the puts
\* of the traces acc.
FreshPayload(acc) ==
    LET f == FreshAfter(acc, Len(acc))
    IN  msgpack_pack_array(2) \o msgpack_pack_array(Len(f.idx)) \o f.sout
        \o msgpack_pack_array(Len(acc)) \o f.body

\* size() of a freshly constructed V05 encoder.
FreshSize ==
    (StReservedPrefix + Len(pack_text(<<>>).bytes) - 5 + array_prefix_size(1))
    + (ReservedPrefix + array_prefix_size(0) - 5)

\* C32 (as claimed): after flush() a V05 encoder is as a freshly constructed
\* one: len() is 0, size() is that of a fresh encoder, the string table's
\* buffer holds the encoded empty string, and the traces put after it are
\* encoded to the bytes a fresh encoder gives for them.
C32_FlushedEqualsFresh ==
    /\ (dialect = "v05" /\ last.op = "encode" /\ last.entry.count > 0) =>
          /\ count = 0
          /\ Size = FreshSize
          /\ StBody = pack_text(<<>>).bytes
    /\ (dialect = "v05" /\ EncodeReturned /\ ~last.entry.failed) =>
          last.out = FreshPayload(last.entry.accepted)

\* C33: with one caller, the payload an encode() of buffered traces returns
\* is as many bytes long as size() was when encode() was called (for V05 the
\* size of the string table plus the size of the payload buffer).
C33_PayloadLengthIsSize ==
    (EncodeReturned /\ last.entry.count > 0) => Len(last.out) = last.entry.size

\* A V05 encode() returned a payload of several traces, one of them with a
\* span, of the length size() had.
C33_Witness ==
    /\ dialect = "v05"
    /\ EncodeReturned
    /\ last.entry.count >= 2
    /\ \E k \in 1..Len(last.entry.accepted) : last.entry.accepted[k] = "one"
    /\ Len(last.out) = last.entry.size

\* A V03 encode() returned a payload of sixteen traces or more (a header of
\* three bytes), of the length size() had.
C33_WitnessV03 ==
    /\ dialect = "v03"
    /\ EncodeReturned
    /\ last.entry.count >= 16
    /\ Len(last.out) = last.entry.size

\* The put that returned last was of a trace that packs, adds more than
\* max_item_size to size() and brings size() above max_size.
BothLimitsViolated ==
    /\ last.op = "put"
    /\ Packs(dialect, last.trace, last.entry.st_index)
    /\ Contribution(dialect, last.trace, last.entry.st_index) > max_item_size
    /\ last.entry.size + Contribution(dialect, last.trace, last.entry.st_index) > max_size

\* C34: a put whose item exceeds max_item_size and whose total would exceed
\* max_size raises BufferItemTooLarge, never BufferFull.
C34_ItemTooLargeFirst ==
    BothLimitsViolated => last.exc = "BufferItemTooLarge"

\* A put on an encoder that already holds traces violated both limits and
\* raised BufferItemTooLarge.
C34_Witness ==
    /\ BothLimitsViolated
    /\ last.entry.count > 0
    /\ last.exc = "BufferItemTooLarge"

GetBytesReturned == last.op = "get_bytes" /\ last.exc = "none"

\* The encode() that returned last was called right after a get_bytes().
EncodeAfterGetBytes ==
    last.op = "encode" /\ last.exc = "none" /\ last.entry.prev = "get_bytes"

\* get_bytes() leaves the cursor, the item count and the buffered bytes as
\* they were, and a get_bytes() right after another returns equal bytes.
GetBytesKeepsState ==
    /\ GetBytesReturned =>
          /\ length = last.entry.length
          /\ count = last.entry.count
          /\ Body = last.entry.body
    /\ (GetBytesReturned /\ last.entry.prev = "get_bytes") =>
          last.out = last.entry.prev_out

LocksReleased(t) ==
    /\ th[t].pc = "idle" => (lock # t /\ st_lock # t)
    /\ ~(lock = t /\ st_lock = t)

\* C36: with two producers and one consumer, a thread that is not inside a
\* call holds neither the encoder's lock nor the string table's (every exit
\* of put, get_bytes, append_raw and flush releases them, a span that raises
\* included), no thread ever holds both, and every put and every encode that
\* was called returns or raises.
C36_LocksReleasedCallsReturn ==
    /\ [](\A t \in Threads : LocksReleased(t))
    /\ \A t \in Threads : (th[t].pc # "idle") ~> (th[t].pc = "idle")

\* All calls of the producers and the consumer have returned, a put among
\* them having raised while the other producer and the consumer ran, and
\* both locks are free.
C36_Witness ==
    /\ mode = "conc"
    /\ dialect = "v05"
    /\ \A t \in Threads : th[t].pc = "idle" /\ th[t].calls = MaxCalls
    /\ hist.failed
    /\ hist.outs # <<>>
    /\ lock = "free" /\ st_lock = "free"

\* The location key convert_memalloc_heap_event and convert_memalloc_event
\* use for an event e, in a converter c that has seen its frames.
MemKey(c, e) ==
    <<_to_locations(c, e.frames, e.nframes).ret,
      MemLabels(e.thread_id, e.thread_native_id, e.thread_name)>>

\* The sizes of the events among events that share the thread fields, the
\* frames and nframes of e.
SizesAt(events, e) ==
    LET same == SelectSeq(events, LAMBDA x :
                    /\ x.thread_id = e.thread_id
                    /\ x.thread_native_id = e.thread_native_id
                    /\ x.thread_name = e.thread_name
                    /\ x.frames = e.frames
                    /\ x.nframes = e.nframes)
    IN  [i \in 1..Len(same) |-> same[i].size]

\* The number of events in the last group, in the order of export, that
\* convert_memalloc_event stores under the location key of e.
LastGroupAt(events, e) ==
    LET keys == GroupKeys("memalloc", events)
        at == {i \in 1..Len(keys) :
                  <<keys[i][1], keys[i][2], keys[i][3], keys[i][10], keys[i][11]>>
                  = <<e.thread_id, e.thread_native_id, e.thread_name, e.frames, e.nframes>>}
        last_key == keys[CHOOSE i \in at : \A j \in at : j <= i]
    IN  Len(SelectSeq(events, LAMBDA x : GroupKey("memalloc", x) = last_key))

\* C37: export yields a profile in which each sample carries 11 values in
\* the order of the sample types; the heap-space of the sample of a heap
\* event is the sum of the sizes of the heap events that share its location
\* key and its other ten values are 0 when nothing else was stored under the
\* key; the alloc-samples of the sample of an allocation event is the count
\* the last call for its location key assigned, and its heap-space is 0.
C37_HeapSpaceAccumulated ==
    ex.pc = "done" =>
        LET c == ex.first.c
            p == ex.first.ret
            heap == ex.events.heap
            memalloc == ex.events.memalloc
            keys == SortedSamples(c)
        IN  /\ ex.first.exc = "none"
            /\ Len(p.sample) = Len(keys)
            /\ [i \in 1..Len(p.sample_type) |-> p.string_table[p.sample_type[i].type + 1]]
                  = [i \in 1..11 |-> SampleTypes[i][1]]
            /\ \A i \in 1..Len(p.sample) : Len(p.sample[i].value) = 11
            /\ \A j \in 1..Len(heap) : \E i \in 1..Len(keys) :
                  /\ keys[i] = MemKey(c, heap[j])
                  /\ p.sample[i].value[11] = Sum(SizesAt(heap, heap[j]))
                  /\ memalloc = <<>> => SubSeq(p.sample[i].value, 1, 10) = [n \in 1..10 |-> 0]
            /\ \A j \in 1..Len(memalloc) : \E i \in 1..Len(keys) :
                  /\ keys[i] = MemKey(c, memalloc[j])
                  /\ p.sample[i].value[9] = LastGroupAt(memalloc, memalloc[j])
                  /\ heap = <<>> => p.sample[i].value[11] = 0

\* The alloc-samples the converter c holds, over all its location keys.
AllocSamplesHeld(c) ==
    LET keys == SortedSamples(c)
    IN  Sum([i \in 1..Len(keys) |->
                IF Lit("alloc-samples") \in DOMAIN c.location_values[keys[i]]
                THEN c.location_values[keys[i]][Lit("alloc-samples")] ELSE 0])

\* C38: export yields a profile whose alloc-samples values add up to the
\* number of memory allocation events it was given.
C38_NoMemallocEventLost ==
    ex.pc = "done" =>
        /\ ex.first.exc = "none"
        /\ Sum([i \in 1..Len(ex.first.ret.sample) |-> ex.first.ret.sample[i].value[9]])
              = Len(ex.events.memalloc)

\* The smaller of two numbers.
Min(a, b) == IF a < b THEN a ELSE b

\* C39: traceback_to_frames and pyframe_to_frames return frames and nframes
\* with nframes the length of the chain walked and min(nframes, max_nframes)
\* frames, each a triple of filename, line number and function name, and
\* _to_locations accepts what they return.
C39_FramesAreTriples ==
    /\ cv.op \in {"traceback_to_frames", "pyframe_to_frames"} =>
          /\ cv.ret[2] = Len(cv.args[1])
          /\ Len(cv.ret[1]) = Min(cv.ret[2], cv.args[2])
          /\ cv.ret[2] - Len(cv.ret[1]) >= 0
          /\ \A i \in 1..Len(cv.ret[1]) :
                \E j \in 1..Len(cv.args[1]) :
                    cv.ret[1][i] = <<cv.args[1][j].co_filename,
                                    IF cv.args[1][j].f_lineno <= 0 THEN 0
                                    ELSE cv.args[1][j].f_lineno,
                                    cv.args[1][j].co_name>>
    /\ cv.op = "_to_locations" /\ cv.prev_op \in {"traceback_to_frames", "pyframe_to_frames"}
          => cv.exc # "ValueError"

\* a <= b for two magnitudes given by their bytes.
MagLeq(a, b) ==
    \/ Len(a) < Len(b)
    \/ /\ Len(a) = Len(b)
       /\ \/ a = b
          \/ \E i \in 1..Len(a) : a[i] < b[i] /\ \A j \in 1..(i - 1) : a[j] = b[j]

\* -(2^63) <= n <= 2^64 - 1 for the number n of magnitude 2^32 or more.
InRange64(n) ==
    IF n.v.sign > 0 THEN MagLeq(n.v.mag, Mag_U64Max) ELSE MagLeq(n.v.mag, Mag_I64Min)

\* The carry into byte k of the sum of the 8-byte numbers a and b.
RECURSIVE CarryInto(_, _, _)
CarryInto(a, b, k) ==
    IF k = 8 THEN 0 ELSE (a[k + 1] + b[k + 1] + CarryInto(a, b, k + 1)) \div 256

\* The 64-bit encoding of n: cf and the 8 bytes of n for n > 0, d3 and 8
\* bytes that add up with those of -n to 0 modulo 2^64 for n < 0.
IsEncoding64(bytes, n) ==
    /\ Len(bytes) = 9
    /\ IF n.v.sign > 0
       THEN bytes[1] = 207 /\ Tail(bytes) = Pad(n.v.mag, 8)
       ELSE /\ bytes[1] = 211
            /\ \A k \in 1..8 :
                  (bytes[k + 1] + Pad(n.v.mag, 8)[k]
                   + CarryInto(Tail(bytes), Pad(n.v.mag, 8), k)) % 256 = 0

\* The number at a limit in a trace of NumberTraces, and the key of its field.
LimitNumber(name) ==
    IF name \in {"max", "over"} THEN SpanOfNumber(name).trace_id
    ELSE SpanOfNumber(name).duration_ns

LimitKey(name) == IF name \in {"max", "over"} THEN K_trace_id ELSE K_duration

\* C40: a V03 put of a span with a number n of 64 bits or more packs n when
\* -(2^63) <= n <= 2^64 - 1, as cf and the 8 bytes of n when n > 0 and as d3
\* and the two's complement of n when n < 0, written after the key of its
\* field; when n is out of that range pack_number raises OverflowError, the
\* put fails and length, size, count and the buffered bytes are as at entry.
\* A small n >= 0 is packed by the unsigned encoder, a small n < 0 by the
\* signed one.
C40_PackNumberRange ==
    /\ \A d \in 0..300 : pack_number(IntV(d)).bytes = msgpack_pack_unsigned_long_long(d)
    /\ \A d \in (-300)..(-1) : pack_number(IntV(d)).bytes = msgpack_pack_long_long(d)
    /\ (dialect = "v03" /\ last.op = "put" /\ last.trace \in NumberTraces) =>
          LET n == LimitNumber(last.trace)
              key == pack_bytes(LimitKey(last.trace)).bytes
              added == Slice(buf, last.entry.length, length - last.entry.length)
          IN  IF InRange64(n)
              THEN /\ last.exc # "PackError"
                   /\ pack_number(n).ok
                   /\ last.exc = "none" =>
                         \E o \in 1..Len(added) :
                             /\ o + Len(key) + 8 <= Len(added)
                             /\ SubSeq(added, o, o + Len(key) - 1) = key
                             /\ IsEncoding64(SubSeq(added, o + Len(key), o + Len(key) + 8), n)
              ELSE /\ last.exc = "PackError"
                   /\ pack_number(n).exc = "OverflowError"
                   /\ length = last.entry.length
                   /\ Size = last.entry.size
                   /\ count = last.entry.count
                   /\ Body = last.entry.body

\* A put of a span whose trace id is 2^64 has failed on an encoder that holds
\* a trace whose trace id is 2^64 - 1.
C40_Witness ==
    /\ dialect = "v03" /\ last.op = "put" /\ last.trace = "over" /\ last.exc = "PackError"
    /\ accepted = <<"max">>
    /\ count = 1
====
